---- MODULE Spec2Model ----
(***************************************************************************)
(* A model of AgenticArxiv's session store (models/store.py) and of its    *)
(* PDF download pipeline (tools/pdf_download_tool.py with                  *)
(* utils/pdf_downloader.py).                                               *)
(*                                                                         *)
(* Two specifications share the module:                                    *)
(*   SpecSession  worker threads calling the InMemoryStore session         *)
(*                accessors and resolve_paper while the clock advances;    *)
(*   Spec         callers running download_arxiv_pdf against the shared    *)
(*                directory, the lock files and the PdfAsset index.        *)
(* Strings are sequences of characters, so that the regular     *)
(* expressions of the source are computed, not assumed.                    *)
(***************************************************************************)
EXTENDS Integers, Sequences, FiniteSets, TLC

\* ------------------------------------------------------------------ bounds
\* InMemoryStore(ttl_minutes, max_papers): the constructor's arguments, scaled
\* down from their defaults (60 minutes, 50 papers) to values the clock and
\* the input lists of the model can exceed.
ttl == 1
max_papers == 2
\* The clock runs from 0 to MaxTime.
MaxTime == 3
\* set_last_papers is called with lists of at most MaxLen papers.
MaxLen == 3
\* Integer references and their string forms (ChDi, digits, ChPian) run from 0
\* to MaxRefN.
MaxRefN == 11
\* The longest digit string int() converts (4300 in CPython), scaled down.
int_max_str_digits == 2

\* ------------------------------------------------------------------ data
NoneId == <<>>
NoTime == -1

Digits == <<"0", "1", "2", "3", "4", "5", "6", "7", "8", "9">>

\* The two CJK characters of _REF_RE, U+7B2C and U+7BC7, each one character of
\* a string here.
ChDi == "U+7B2C"
ChPian == "U+7BC7"

IsDigit(ch) == \E i \in 1..10 : Digits[i] = ch

IsSpace(ch) == ch = " "

DigitVal(ch) == (CHOOSE i \in 1..10 : Digits[i] = ch) - 1

Id1 == <<"a", "/", "1">>
Id2 == <<"2", ".", "7">>
IdUnknown == <<"z">>

\* The prefix of every arXiv PDF address, kept as one element of a string.
ArxivPdf == "https://arxiv.org/pdf/"

\* Paper1 carries a versioned address without the .pdf suffix; Paper2 carries
\* no address at all.
Paper1 == [id |-> Id1, title |-> <<"G", "a", "n">>,
           pdf_url |-> <<ArxivPdf, "a", "/", "1", "v", "2", "/">>]
Paper2 == [id |-> Id2, title |-> <<"g", "A", "N", "s">>, pdf_url |-> <<>>]
NoPaper == [id |-> NoneId, title |-> <<>>, pdf_url |-> <<>>]
\* In the place of a returned paper: the call raised ValueError.
ValueErrorRaised == [id |-> <<"ValueError">>, title |-> <<>>, pdf_url |-> <<>>]

Papers == {Paper1, Paper2}

SessionIds == {"s1"}
Threads == {"t1"}

RECURSIVE SeqsUpTo(_, _)
SeqsUpTo(S, n) ==
    IF n = 0 THEN {<<>>}
    ELSE LET shorter == SeqsUpTo(S, n - 1)
         IN shorter \cup {Append(q, x) : q \in {r \in shorter : Len(r) = n - 1}, x \in S}

InputLists == SeqsUpTo(Papers, MaxLen)

\* ------------------------------------------------------------------ state
VARIABLES
    \* --- models/store.py: InMemoryStore and the clock it reads
    now,        \* datetime.now(), in ticks
    sessions,   \* self.sessions: session_id -> SessionState (exists = FALSE: no entry)
    tpc,        \* each worker thread's position: "idle" | "resolve_active"
    tlocal,     \* resolve_paper's locals between its two locked accessor calls
    tret,       \* history: the last completed call and what it returned
    lastSet,    \* history: the argument and time of the last set_last_papers per session
    seen,       \* history: what resolve_paper(sid, None) would have returned from each
                \* state since a followed call began (SpecAtomic only)
    \* --- tools/pdf_download_tool.py and utils/pdf_downloader.py
    files,      \* the destination files of settings.pdf_raw_path: path -> content
    part,       \* the temp files <dest>.part: dest -> content
    lock,       \* the lock files <dest>.lock: dest -> whether the file exists
    lockOwner,  \* history: the caller whose acquire_lock created <dest>.lock
    assets,     \* store.pdf_cache: paper_id -> PdfAsset
    pc,         \* each caller's position in download_arxiv_pdf
    local,      \* each caller's locals in download_arxiv_pdf
    ret,        \* history: the last completed download_arxiv_pdf call and its outcome
    \* --- models/store.py: the task registry
    tasks,      \* self.tasks: task_id -> TranslateTask (exists = FALSE: no entry)
    upc,        \* each updating thread's position in update_task
    ulocal,     \* update_task's locals: the task, the patch, the fields still to set
    tres,       \* history: the last completed task call and what it returned
    \* --- utils/pdf_translator.py: one run_pdf2zh_translate call
    xpc,        \* the call's position: "idle" | "running" | "locate" | "returned" | "raised"
    xin,        \* the call's arguments: whether log_path is given, keep_dual
    stdout_file,\* the transcript log: "none" | "open" | "closed"
    written,    \* the number of lines written to the transcript log
    tail,       \* the list tail of captured output
    last_p,     \* the last progress value on_text passed on
    cbs,        \* history: the values progress_cb was called with, in order
    xout,       \* history: the chunks the runner has passed to on_text, in order
    xres,       \* the call's outcome: the result returned or the error raised
    \* --- the persisted cache index behind store.pdf_cache (assets is its in-memory map)
    idisk,      \* the index file on disk
    itmp,       \* the temp file the index is written to before the rename
    ipc,        \* the position of the mutating call in its save
    ipre,       \* history: the index file's content when the mutating call began
    crashed     \* the process has failed

storeVars == <<sessions, tpc, tlocal, tret, lastSet, seen>>

downloadVars == <<files, part, lock, lockOwner, assets, pc, local, ret>>

taskVars == <<tasks, upc, ulocal, tres>>

translateVars == <<xpc, xin, stdout_file, written, tail, last_p, cbs, xout, xres>>

indexVars == <<idisk, itmp, ipc, ipre, crashed>>

\* What a step of the download tool leaves alone.
svars == <<now, storeVars, taskVars, translateVars, indexVars>>

\* What a step of the session store leaves alone.
dvars == <<downloadVars, taskVars, translateVars, indexVars>>

\* What a step of the task registry leaves alone.
kvars == <<now, storeVars, downloadVars, translateVars, indexVars>>

\* What a step of the translator leaves alone.
xvars == <<now, storeVars, downloadVars, taskVars, indexVars>>

\* What a step of the index's save leaves alone, assets apart.
ivars == <<now, storeVars, taskVars, translateVars,
           files, part, lock, lockOwner, pc, local, ret>>

vars == <<now, storeVars, downloadVars, taskVars, translateVars, indexVars>>

\* ------------------------------------------------------------------ strings
Uppers == <<"A", "B", "C", "D", "E", "F", "G", "H", "I", "J", "K", "L", "M",
            "N", "O", "P", "Q", "R", "S", "T", "U", "V", "W", "X", "Y", "Z">>
Lowers == <<"a", "b", "c", "d", "e", "f", "g", "h", "i", "j", "k", "l", "m",
            "n", "o", "p", "q", "r", "s", "t", "u", "v", "w", "x", "y", "z">>

\* str.lower(), one character
LowerCh(ch) ==
    IF \E i \in 1..26 : Uppers[i] = ch
    THEN Lowers[CHOOSE i \in 1..26 : Uppers[i] = ch]
    ELSE ch

\* str.lower()
Lower(s) == [i \in 1..Len(s) |-> LowerCh(s[i])]

\* str.strip(): leading and trailing whitespace removed
RECURSIVE LStrip(_)
LStrip(s) == IF s # <<>> /\ IsSpace(Head(s)) THEN LStrip(Tail(s)) ELSE s

RECURSIVE RStrip(_)
RStrip(s) ==
    IF s # <<>> /\ IsSpace(s[Len(s)]) THEN RStrip(SubSeq(s, 1, Len(s) - 1)) ELSE s

Strip(s) == RStrip(LStrip(s))

\* `low in title`: low occurs in title as a contiguous substring
Contains(title, low) ==
    \E i \in 0..(Len(title) - Len(low)) : SubSeq(title, i + 1, i + Len(low)) = low

\* int(digits)
RECURSIVE ToInt(_)
ToInt(ds) ==
    IF ds = <<>> THEN 0
    ELSE 10 * ToInt(SubSeq(ds, 1, Len(ds) - 1)) + DigitVal(ds[Len(ds)])

\* str(n) for n >= 0
RECURSIVE DecStr(_)
DecStr(n) ==
    IF n < 10 THEN <<Digits[n + 1]>>
    ELSE Append(DecStr(n \div 10), Digits[(n % 10) + 1])

\* The first position at or after i whose character fails `space`/`digit`.
RECURSIVE SkipSpaces(_, _)
SkipSpaces(s, i) ==
    IF i <= Len(s) /\ IsSpace(s[i]) THEN SkipSpaces(s, i + 1) ELSE i

RECURSIVE SkipDigits(_, _)
SkipDigits(s, i) ==
    IF i <= Len(s) /\ IsDigit(s[i]) THEN SkipDigits(s, i + 1) ELSE i

\* _REF_RE.fullmatch(s) for (?:ChDi)?\s*(\d+)\s*(?:ChPian)? : every quantifier of the
\* pattern is followed by a class disjoint from its own, so the greedy match is
\* the only one. ok: it matched; digits: group(1).
REF_RE_fullmatch(s) ==
    LET i1 == IF 1 <= Len(s) /\ s[1] = ChDi THEN 2 ELSE 1
        i2 == SkipSpaces(s, i1)
        i3 == SkipDigits(s, i2)
        i4 == SkipSpaces(s, i3)
        i5 == IF i4 <= Len(s) /\ s[i4] = ChPian THEN i4 + 1 ELSE i4
    IN  [ok |-> i3 > i2 /\ i5 = Len(s) + 1,
         digits |-> SubSeq(s, i2, i3 - 1)]

\* ------------------------------------------------------------------ references
RefNone == [kind |-> "none", n |-> 0, s |-> <<>>]
IntRef(n) == [kind |-> "int", n |-> n, s |-> <<>>]
StrRef(s) == [kind |-> "str", n |-> 0, s |-> s]

\* The string reference "N-th paper": ChDi, str(n), ChPian
NthRef(n) == StrRef(<<ChDi>> \o DecStr(n) \o <<ChPian>>)

\* The number 1 written with more digits than int() converts.
ZeroPadded == [i \in 1..int_max_str_digits |-> "0"] \o <<"1">>

OtherStrings ==
    {Id1, Id2, IdUnknown, <<"g", "a">>, <<"A", "N", "S">>, <<" ", "2", " ">>, <<"0", "2">>,
     <<ChDi, " ", "1">>, <<"1", ChPian>>, <<ChPian>>, ZeroPadded}

Refs ==
    {RefNone} \cup {IntRef(n) : n \in 0..MaxRefN} \cup {NthRef(n) : n \in 0..MaxRefN}
        \cup {StrRef(s) : s \in OtherStrings}

\* ------------------------------------------------------------------ session store
\* SessionState as the store's accessors leave it right after creating it.
NewSession ==
    [exists |-> TRUE, last_papers |-> <<>>, updated_at |-> NoTime,
     last_active_paper_id |-> NoneId, last_active_at |-> NoTime]

NoSession ==
    [exists |-> FALSE, last_papers |-> <<>>, updated_at |-> NoTime,
     last_active_paper_id |-> NoneId, last_active_at |-> NoTime]

\* InMemoryStore._get_or_create_session
GetOrCreateSession(ss, sid) == IF ss[sid].exists THEN ss[sid] ELSE NewSession

\* A faulty variant of Truncate: the slice keeps one paper too many.
TruncateOneMore(papers) ==
    SubSeq(papers, 1, IF Len(papers) < max_papers + 1 THEN Len(papers) ELSE max_papers + 1)

\* papers[: self.max_papers]
Truncate(papers) ==
    SubSeq(papers, 1, IF Len(papers) < max_papers THEN Len(papers) ELSE max_papers)

\* InMemoryStore._expired
Expired(t, clock) == IF t = NoTime THEN TRUE ELSE (clock - t) > ttl

\* InMemoryStore.set_last_papers: the session map after the call
SetLastPapersFn(ss, sid, papers, clock) ==
    LET st == GetOrCreateSession(ss, sid)
    IN  [ss EXCEPT ![sid] = [st EXCEPT !.last_papers = Truncate(papers),
                                       !.updated_at = clock]]

\* A faulty variant of GetLastPapersFn: an expired read returns nothing but leaves the
\* stored list in place.
GetLastPapersNoClear(ss, sid, clock) ==
    LET st == ss[sid]
    IN  IF ~st.exists THEN [ss |-> ss, val |-> <<>>]
        ELSE IF clock - st.updated_at > ttl
             THEN [ss |-> ss, val |-> <<>>]
             ELSE [ss |-> ss, val |-> st.last_papers]

\* InMemoryStore.get_last_papers: the session map after the call and the result
GetLastPapersFn(ss, sid, clock) ==
    LET st == ss[sid]
    IN  IF ~st.exists THEN [ss |-> ss, val |-> <<>>]
        ELSE IF clock - st.updated_at > ttl
             THEN [ss |-> [ss EXCEPT ![sid].last_papers = <<>>], val |-> <<>>]
             ELSE [ss |-> ss, val |-> st.last_papers]

\* A faulty variant of SetLastActiveFn: nothing is recorded.
SetLastActiveIgnored(ss, sid, paper_id, clock) == ss

\* InMemoryStore.set_last_active_paper_id
SetLastActiveFn(ss, sid, paper_id, clock) ==
    IF paper_id = NoneId THEN ss
    ELSE LET st == GetOrCreateSession(ss, sid)
         IN  [ss EXCEPT ![sid] = [st EXCEPT !.last_active_paper_id = paper_id,
                                            !.last_active_at = clock,
                                            !.updated_at = clock]]

\* A faulty variant of GetLastActiveFn: the TTL of last_active_at is not checked.
GetLastActiveNoTtl(ss, sid, clock) ==
    [ss |-> ss, val |-> IF ss[sid].exists THEN ss[sid].last_active_paper_id ELSE NoneId]

\* A faulty variant of GetLastActiveFn: the age is measured from updated_at.
GetLastActiveBySessionAge(ss, sid, clock) ==
    LET st == ss[sid]
    IN  IF ~st.exists THEN [ss |-> ss, val |-> NoneId]
        ELSE IF st.last_active_at # NoTime /\ Expired(st.updated_at, clock)
             THEN [ss |-> [ss EXCEPT ![sid].last_active_paper_id = NoneId,
                                     ![sid].last_active_at = NoTime],
                   val |-> NoneId]
             ELSE [ss |-> ss, val |-> st.last_active_paper_id]

\* InMemoryStore.get_last_active_paper_id
GetLastActiveFn(ss, sid, clock) ==
    LET st == ss[sid]
    IN  IF ~st.exists THEN [ss |-> ss, val |-> NoneId]
        ELSE IF st.last_active_at # NoTime /\ Expired(st.last_active_at, clock)
             THEN [ss |-> [ss EXCEPT ![sid].last_active_paper_id = NoneId,
                                     ![sid].last_active_at = NoTime],
                   val |-> NoneId]
             ELSE [ss |-> ss, val |-> st.last_active_paper_id]

\* `for p in papers: if <test>: return p` and then `return None`; hit[i] is
\* the test's value on papers[i].
FirstWhere(papers, hit) ==
    IF \E i \in 1..Len(papers) : hit[i]
    THEN papers[CHOOSE i \in 1..Len(papers) : hit[i] /\ \A j \in 1..(i - 1) : ~hit[j]]
    ELSE NoPaper

\* papers[idx] if 0 <= idx < len(papers) else None
AtIndex(papers, idx) == IF 0 <= idx /\ idx < Len(papers) THEN papers[idx + 1] ELSE NoPaper

\* resolve_paper, ref is None, after both accessor calls
ResolveByLastId(papers, last_id) ==
    IF last_id = NoneId THEN NoPaper
    ELSE FirstWhere(papers, [i \in 1..Len(papers) |-> papers[i].id = last_id])

\* resolve_paper, isinstance(ref, int)
ResolveInt(papers, n) == AtIndex(papers, n - 1)

\* A faulty variant of MatchedIndex: the matched number is used as a 0-based index.
MatchedIndexZeroBased(digits) == ToInt(digits)

\* resolve_paper, the index a matched string names: int(m.group(1)) - 1
MatchedIndex(digits) == ToInt(digits) - 1

\* resolve_paper, ref is a string
ResolveStr(papers, ref) ==
    LET s == Strip(ref)
        m == REF_RE_fullmatch(s)
        low == Lower(s)
        SameId == [i \in 1..Len(papers) |-> papers[i].id = s]
        InTitle == [i \in 1..Len(papers) |-> Contains(Lower(papers[i].title), low)]
    IN  IF m.ok
        THEN IF Len(m.digits) > int_max_str_digits THEN ValueErrorRaised
             ELSE AtIndex(papers, MatchedIndex(m.digits))
        ELSE IF FirstWhere(papers, SameId) # NoPaper THEN FirstWhere(papers, SameId)
        ELSE FirstWhere(papers, InTitle)

\* resolve_paper once `papers` is known non-empty and ref is not None
ResolveGiven(papers, ref) ==
    IF ref.kind = "int" THEN ResolveInt(papers, ref.n) ELSE ResolveStr(papers, ref.s)

\* ------------------------------------------------------------------ download: data
\* The program constant of download_pdf's size check.
MinPdfSize == 1024

\* acquire_lock(lock_path, retries): the number of create-exclusive attempts,
\* scaled down from its default of 150.
retries == 2

\* The papers the download calls are made for.
PaperIds == {Id1}
Callers == {"c1", "c2"}
NoCaller == "nobody"

\* A file's content: whether the file exists, its digest, its size in bytes
\* and whether it starts with the PDF magic bytes. local.body holds the
\* (size, sha256) download_pdf returned: those of the file it promoted.
NoFile == [exists |-> FALSE, sha |-> "", size |-> 0, magic |-> FALSE]
PdfA == [exists |-> TRUE, sha |-> "A", size |-> 2048, magic |-> TRUE]
PdfB == [exists |-> TRUE, sha |-> "B", size |-> 4096, magic |-> TRUE]
HtmlPage == [exists |-> TRUE, sha |-> "H", size |-> 2048, magic |-> FALSE]
TinyPdf == [exists |-> TRUE, sha |-> "T", size |-> 512, magic |-> TRUE]

\* What the server may send as the body of a 200 response.
Bodies == {PdfA, PdfB, HtmlPage, TinyPdf}

\* The temp file when the stream breaks off before the first chunk (of up to
\* 1 MiB) arrived: opened for writing, nothing written.
Truncated(body) == [exists |-> TRUE, sha |-> "partial", size |-> 0, magic |-> FALSE]

\* _SAFE_FILENAME_RE: [^A-Za-z0-9._-]
IsSafeChar(ch) ==
    \/ \E i \in 1..26 : Uppers[i] = ch \/ Lowers[i] = ch
    \/ IsDigit(ch)
    \/ ch \in {".", "_", "-"}

\* _SAFE_FILENAME_RE.sub("_", name): each maximal run of other characters
\* becomes one "_"
RECURSIVE SubUnsafe(_)
SubUnsafe(name) ==
    IF name = <<>> THEN <<>>
    ELSE IF IsSafeChar(Head(name)) THEN <<Head(name)>> \o SubUnsafe(Tail(name))
    ELSE IF Len(name) >= 2 /\ ~IsSafeChar(name[2]) THEN SubUnsafe(Tail(name))
    ELSE <<"_">> \o SubUnsafe(Tail(name))

\* A faulty variant of StripUnderscores: only the front is stripped.
RECURSIVE LStripUnderscores(_)
LStripUnderscores(name) ==
    IF name # <<>> /\ Head(name) = "_" THEN LStripUnderscores(Tail(name)) ELSE name

\* str.strip("_")
RECURSIVE StripUnderscores(_)
StripUnderscores(name) ==
    IF name # <<>> /\ Head(name) = "_" THEN StripUnderscores(Tail(name))
    ELSE IF name # <<>> /\ name[Len(name)] = "_"
    THEN StripUnderscores(SubSeq(name, 1, Len(name) - 1))
    ELSE name

\* safe_filename
safe_filename(name) == StripUnderscores(SubUnsafe(name))

\* local_path = os.path.join(settings.pdf_raw_path, safe_filename(paper_id) + ".pdf"),
\* without the directory all paths share
LocalPath(paper_id) == safe_filename(paper_id) \o <<".", "p", "d", "f">>

Dests == {LocalPath(p) : p \in PaperIds}

\* A faulty variant of ExistsNonEmpty: the file is taken to be there.
FileAssumedPresent(content) == TRUE

\* os.path.exists(local_path) and os.path.getsize(local_path) > 0
ExistsNonEmpty(content) == content.exists /\ content.size > 0

\* A check that lets every temp file through.
AcceptsAnything(content) == TRUE

\* download_pdf's check of the temp file: not (size < 1024 or not _looks_like_pdf)
PassesValidation(content) == ~(content.size < MinPdfSize \/ ~content.magic)

\* A PdfAsset of the index; exists = FALSE: the index has no record. error =
\* NoError is Python's None.
NoError == "None"
NoAsset == [exists |-> FALSE, status |-> "", size_bytes |-> 0, sha256 |-> "", error |-> NoError]

\* PdfCacheIndex.get
IndexGet(idx, paper_id) == idx[paper_id]

\* PdfCacheIndex.upsert: the whole record is replaced
IndexUpsert(idx, paper_id, record) == [idx EXCEPT ![paper_id] = record]

\* PdfCacheIndex.update: the named fields are merged into an existing record;
\* a no-op when the key is absent. patch is a record of the fields to set.
IndexUpdate(idx, paper_id, patch) ==
    IF ~idx[paper_id].exists THEN idx
    ELSE [idx EXCEPT ![paper_id] =
             [f \in DOMAIN idx[paper_id] |->
                 IF f \in DOMAIN patch THEN patch[f] ELSE idx[paper_id][f]]]

\* An open without O_EXCL: it succeeds whether or not the file exists.
CreatesRegardless(lk, dest) == TRUE

\* A faulty variant of CanCreateExclusive: the lock file of a holder that is
\* gone is taken over.
BreaksStaleLock(lk, dest) == ~lk[dest] \/ pc[lockOwner[dest]] = "crashed"

\* os.open(lock_path, O_CREAT | O_EXCL | O_WRONLY) succeeds: no such file yet
CanCreateExclusive(lk, dest) == ~lk[dest]

\* A release that leaves the lock file in place.
KeepLock(lk, dest) == lk

\* release_lock: the lock file is removed if it exists
ReleaseLock(lk, dest) == [lk EXCEPT ![dest] = FALSE]

NoLocals ==
    [paper_id |-> NoneId, force |-> FALSE, existed |-> FALSE, asset_exists |-> FALSE,
     asset_status |-> "", tries |-> 0, body |-> NoFile, err |-> NoError,
     net |-> FALSE, pdf_url |-> <<>>, local_path |-> <<>>]

NoCall ==
    [paper_id |-> NoneId, force |-> FALSE, existed |-> FALSE, prior |-> "", status |-> ""]

\* The task ids create_translate_task can draw, and the threads followed
\* through update_task; NoTask is the None that get_task and update_task return.
TaskIds == {"k1", "k2"}
Updaters == {"u1"}
NoTask == [exists |-> FALSE, paper_id |-> NoneId, status |-> "", progress |-> 0,
           updated_at |-> NoTime]
NoTaskCall == [op |-> "none", task_id |-> "", task |-> NoTask]
NoUpdate == [task_id |-> "", todo |-> <<>>, patch |-> <<>>, before |-> NoTask]

\* The content of an index file: a complete serialised index, or not one
\* (absent, truncated or malformed).
Serialised(idx) == [ok |-> TRUE, index |-> idx]
NotAnIndex == [ok |-> FALSE, index |-> <<>>]

\* The index file holds the empty index the process loaded at its start.
IndexIdle ==
    /\ idisk = Serialised([p \in PaperIds |-> NoAsset])
    /\ itmp = NotAnIndex
    /\ ipc = "idle"
    /\ ipre = idisk
    /\ crashed = FALSE

\* No run_pdf2zh_translate call has been made.
NoProgress == -1
NoArgs == [log_path |-> FALSE, keep_dual |-> FALSE]
NoOutcome == [kind |-> "none", tail_text |-> <<>>, mono |-> "", dual |-> ""]

TranslateIdle ==
    /\ xpc = "idle"
    /\ xin = NoArgs
    /\ stdout_file = "none"
    /\ written = 0
    /\ tail = <<>>
    /\ last_p = NoProgress
    /\ cbs = <<>>
    /\ xout = <<>>
    /\ xres = NoOutcome

\* No task exists and no update_task call is in progress.
TasksIdle ==
    /\ tasks = [k \in TaskIds |-> NoTask]
    /\ upc = [u \in Updaters |-> "idle"]
    /\ ulocal = [u \in Updaters |-> NoUpdate]
    /\ tres = NoTaskCall
    /\ TranslateIdle
    /\ IndexIdle

\* No download is in progress and nothing is cached.
DownloadIdle ==
    /\ files = [d \in Dests |-> NoFile]
    /\ part = [d \in Dests |-> NoFile]
    /\ lock = [d \in Dests |-> FALSE]
    /\ lockOwner = [d \in Dests |-> NoCaller]
    /\ assets = [p \in PaperIds |-> NoAsset]
    /\ pc = [c \in Callers |-> "idle"]
    /\ local = [c \in Callers |-> NoLocals]
    /\ ret = NoCall
    /\ TasksIdle

\* ------------------------------------------------------------------ SpecSession
NoRet == [op |-> "none", sid |-> "", ref |-> RefNone, papers |-> <<>>, id |-> NoneId,
          paper |-> NoPaper]

NoLocal == [sid |-> "", papers |-> <<>>, papers_changed |-> FALSE]

NoSet == [arg |-> <<>>, at |-> NoTime]

ActiveIds == {Id1, Id2, IdUnknown, NoneId}

InitSession ==
    /\ now = 0
    /\ sessions = [sid \in SessionIds |-> NoSession]
    /\ tpc = [t \in Threads |-> "idle"]
    /\ tlocal = [t \in Threads |-> NoLocal]
    /\ tret = NoRet
    /\ lastSet = [sid \in SessionIds |-> NoSet]
    /\ seen = [t \in Threads |-> {}]
    /\ DownloadIdle

\* The wall clock advances.
Tick ==
    /\ now < MaxTime
    /\ now' = now + 1
    /\ UNCHANGED <<sessions, tpc, tlocal, tret, lastSet>>
    /\ UNCHANGED dvars

\* The accessors below are called by any worker thread at any time: each is one
\* critical section of self._lock. Threads names the threads that are followed
\* through resolve_paper(sid, None), whose two accessor calls are two critical
\* sections; what another thread's resolve_paper does to the store in between
\* is what its own get_last_papers and get_last_active_paper_id calls do.

\* History: the threads inside resolve_paper(sid, None), between its two
\* accessor calls, learn that another call changed the session's last_papers.
Marked(sid, changed) ==
    [u \in Threads |->
        IF changed /\ tpc[u] = "resolve_active" /\ tlocal[u].sid = sid
        THEN [tlocal[u] EXCEPT !.papers_changed = TRUE]
        ELSE tlocal[u]]

\* store.set_last_papers(sid, papers)
SetLastPapers(sid, papers) ==
    /\ sessions' = SetLastPapersFn(sessions, sid, papers, now)
    /\ tret' = [NoRet EXCEPT !.op = "set_last_papers", !.sid = sid]
    /\ lastSet' = [lastSet EXCEPT ![sid] = [arg |-> papers, at |-> now]]
    /\ tlocal' = Marked(sid, TRUE)
    /\ UNCHANGED <<now, tpc>>
    /\ UNCHANGED dvars

\* store.get_last_papers(sid)
GetLastPapers(sid) ==
    /\ LET r == GetLastPapersFn(sessions, sid, now)
       IN  /\ sessions' = r.ss
           /\ tret' = [NoRet EXCEPT !.op = "get_last_papers",
                                    !.sid = sid, !.papers = r.val]
           /\ tlocal' = Marked(sid, r.ss # sessions)
    /\ UNCHANGED <<now, tpc, lastSet>>
    /\ UNCHANGED dvars

\* store.set_last_active_paper_id(sid, paper_id)
SetLastActive(sid, paper_id) ==
    /\ sessions' = SetLastActiveFn(sessions, sid, paper_id, now)
    /\ tret' = [NoRet EXCEPT !.op = "set_last_active", !.sid = sid, !.id = paper_id]
    /\ UNCHANGED <<now, tpc, tlocal, lastSet>>
    /\ UNCHANGED dvars

\* store.get_last_active_paper_id(sid)
GetLastActive(sid) ==
    /\ LET r == GetLastActiveFn(sessions, sid, now)
       IN  /\ sessions' = r.ss
           /\ tret' = [NoRet EXCEPT !.op = "get_last_active", !.sid = sid, !.id = r.val]
    /\ UNCHANGED <<now, tpc, tlocal, lastSet>>
    /\ UNCHANGED dvars

\* store.resolve_paper(sid, ref) up to and including its get_last_papers call.
\* With no papers, or with a ref that is not None, the rest reads only the
\* list this call returned, and the call completes here.
ResolveBegin(t, sid, ref) ==
    /\ tpc[t] = "idle"
    /\ LET r == GetLastPapersFn(sessions, sid, now)
           others == Marked(sid, r.ss # sessions)
       IN  /\ sessions' = r.ss
           /\ IF r.val = <<>>
              THEN /\ tret' = [NoRet EXCEPT !.op = "resolve_paper", !.sid = sid,
                                            !.ref = ref]
                   /\ tlocal' = others
                   /\ UNCHANGED tpc
              ELSE IF ref.kind # "none"
              THEN /\ tret' = [NoRet EXCEPT !.op = "resolve_paper", !.sid = sid,
                                            !.ref = ref,
                                            !.paper = ResolveGiven(r.val, ref)]
                   /\ tlocal' = others
                   /\ UNCHANGED tpc
              ELSE /\ tpc' = [tpc EXCEPT ![t] = "resolve_active"]
                   /\ tlocal' = [others EXCEPT ![t] = [sid |-> sid, papers |-> r.val,
                                                      papers_changed |-> FALSE]]
                   /\ UNCHANGED tret
    /\ UNCHANGED <<now, lastSet>>
    /\ UNCHANGED dvars

\* store.resolve_paper(sid, None) from its get_last_active_paper_id call on
ResolveActive(t) ==
    /\ tpc[t] = "resolve_active"
    /\ LET r == GetLastActiveFn(sessions, tlocal[t].sid, now)
       IN  /\ sessions' = r.ss
           /\ tret' = [NoRet EXCEPT !.op = "resolve_paper", !.sid = tlocal[t].sid,
                                         !.ref = RefNone,
                                         !.paper = ResolveByLastId(tlocal[t].papers, r.val)]
    /\ tpc' = [tpc EXCEPT ![t] = "idle"]
    /\ tlocal' = [tlocal EXCEPT ![t] = NoLocal]
    /\ UNCHANGED <<now, lastSet>>
    /\ UNCHANGED dvars

\* The references the threads of SpecSession resolve: one of each kind.
SessionRefs == {RefNone, IntRef(1), NthRef(2), StrRef(Id2), StrRef(<<"g", "a">>)}

\* The history variable seen is kept only by SpecAtomic.
Untracked == UNCHANGED seen

NextSession ==
    \/ Tick /\ Untracked
    \/ \E sid \in SessionIds, papers \in InputLists : SetLastPapers(sid, papers) /\ Untracked
    \/ \E sid \in SessionIds : GetLastPapers(sid) /\ Untracked
    \/ \E sid \in SessionIds, paper_id \in ActiveIds :
          SetLastActive(sid, paper_id) /\ Untracked
    \/ \E sid \in SessionIds : GetLastActive(sid) /\ Untracked
    \/ \E t \in Threads, sid \in SessionIds, ref \in SessionRefs :
          ResolveBegin(t, sid, ref) /\ Untracked
    \/ \E t \in Threads : ResolveActive(t) /\ Untracked

SpecSession == InitSession /\ [][NextSession]_vars

\* ------------------------------------------------------------------ SpecResolve
\* resolve_paper as a function of the session and the reference: the session is
\* any state one set_last_papers and one set_last_active_paper_id leave at time
\* 0 (or no session at all), the reference any of Refs.
InitResolve ==
    /\ now = 0
    /\ sessions \in
         {[sid \in SessionIds |-> NoSession]} \cup
         {SetLastActiveFn(SetLastPapersFn([sid \in SessionIds |-> NoSession],
                                          s, papers, 0), s, a, 0) :
              s \in SessionIds, papers \in InputLists, a \in ActiveIds}
    /\ tpc = [t \in Threads |-> "idle"]
    /\ tlocal = [t \in Threads |-> NoLocal]
    /\ tret = NoRet
    /\ lastSet = [sid \in SessionIds |-> NoSet]
    /\ seen = [t \in Threads |-> {}]
    /\ DownloadIdle

NextResolve ==
    \/ Tick /\ Untracked
    \/ \E t \in Threads, sid \in SessionIds, ref \in Refs :
          ResolveBegin(t, sid, ref) /\ Untracked
    \/ \E t \in Threads : ResolveActive(t) /\ Untracked

SpecResolve == InitResolve /\ [][NextResolve]_vars

\* ------------------------------------------------------------------ SpecAtomic
\* resolve_paper(sid, None) as one critical section would compute it from the
\* session state ss at time clock: lines 111-123 with nothing in between.
ResolveNoneOn(ss, sid, clock) ==
    LET r1 == GetLastPapersFn(ss, sid, clock)
    IN  IF r1.val = <<>> THEN NoPaper
        ELSE ResolveByLastId(r1.val, GetLastActiveFn(r1.ss, sid, clock).val)

\* History: while thread t is inside resolve_paper(sid, None), seen[t] collects
\* the result of ResolveNoneOn for the state the call found and for every
\* state since.
Track ==
    seen' = [t \in Threads |->
                IF tpc'[t] # "resolve_active" THEN {}
                ELSE (IF tpc[t] = "resolve_active" THEN seen[t]
                      ELSE {ResolveNoneOn(sessions, tlocal'[t].sid, now)})
                     \cup {ResolveNoneOn(sessions', tlocal'[t].sid, now')}]

\* The session store of SpecSession with the threads' resolve_paper calls all
\* made with ref = None, and the history seen kept.
NextAtomic ==
    \/ Tick /\ Track
    \/ \E sid \in SessionIds, papers \in InputLists : SetLastPapers(sid, papers) /\ Track
    \/ \E sid \in SessionIds : GetLastPapers(sid) /\ Track
    \/ \E sid \in SessionIds, paper_id \in ActiveIds : SetLastActive(sid, paper_id) /\ Track
    \/ \E sid \in SessionIds : GetLastActive(sid) /\ Track
    \/ \E t \in Threads, sid \in SessionIds : ResolveBegin(t, sid, RefNone) /\ Track
    \/ \E t \in Threads : ResolveActive(t) /\ Track

SpecAtomic == InitSession /\ [][NextAtomic]_vars

\* ------------------------------------------------------------------ SpecTasks
\* A faulty variant of NewTask: the task starts RUNNING.
NewTaskRunning(paper, clock) ==
    [exists |-> TRUE, paper_id |-> paper.id, status |-> "RUNNING", progress |-> 0,
     updated_at |-> clock]

\* create_translate_task, lines 172-178: the TranslateTask it builds. progress
\* and updated_at are fields the constructor fills with its defaults.
NewTask(paper, clock) ==
    [exists |-> TRUE, paper_id |-> paper.id, status |-> "PENDING", progress |-> 0,
     updated_at |-> clock]

\* setattr(t, k, v)
Setattr(t, k, v) == [t EXCEPT ![k] = v]

\* The keyword arguments of update_task calls, in the order they are given.
Patches ==
    {<<<<"status", "RUNNING">>, <<"progress", 1>>>>,
     <<<<"progress", 2>>, <<"status", "SUCCEEDED">>>>,
     <<<<"status", "FAILED">>>>}

\* create_translate_task(session_id, paper); task_id is the uuid4 it draws,
\* one that no task has yet.
CreateTask(task_id, paper) ==
    /\ ~tasks[task_id].exists
    /\ tasks' = [tasks EXCEPT ![task_id] = NewTask(paper, now)]
    /\ tres' = [op |-> "create", task_id |-> task_id, task |-> tasks'[task_id]]
    /\ UNCHANGED <<upc, ulocal>>
    /\ UNCHANGED kvars

\* get_task(task_id): self.tasks.get(task_id), and what the caller reads from
\* the object it got.
GetTask(task_id) ==
    /\ tres' = [op |-> "get", task_id |-> task_id, task |-> tasks[task_id]]
    /\ UNCHANGED <<tasks, upc, ulocal>>
    /\ UNCHANGED kvars

\* update_task, lines 186-188: the lookup; an unknown id returns None.
UpdateBegin(u, task_id, patch) ==
    /\ upc[u] = "idle"
    /\ IF ~tasks[task_id].exists
       THEN /\ tres' = [op |-> "update", task_id |-> task_id, task |-> NoTask]
            /\ UNCHANGED <<upc, ulocal>>
       ELSE /\ upc' = [upc EXCEPT ![u] = "setattr"]
            /\ ulocal' = [ulocal EXCEPT ![u] = [task_id |-> task_id, todo |-> patch,
                                                patch |-> patch,
                                                before |-> tasks[task_id]]]
            /\ UNCHANGED tres
    /\ UNCHANGED tasks
    /\ UNCHANGED kvars

\* update_task, lines 189-190: one turn of the loop sets one field of the
\* task object, which is the object self.tasks holds.
UpdateSetattr(u) ==
    /\ upc[u] = "setattr"
    /\ ulocal[u].todo # <<>>
    /\ LET kv == Head(ulocal[u].todo)
       IN  tasks' = [tasks EXCEPT ![ulocal[u].task_id] = Setattr(@, kv[1], kv[2])]
    /\ ulocal' = [ulocal EXCEPT ![u].todo = Tail(@)]
    /\ UNCHANGED <<upc, tres>>
    /\ UNCHANGED kvars

\* update_task, lines 191-193: updated_at, the store back and the return.
UpdateFinish(u) ==
    /\ upc[u] = "setattr"
    /\ ulocal[u].todo = <<>>
    /\ tasks' = [tasks EXCEPT ![ulocal[u].task_id] = Setattr(@, "updated_at", now)]
    /\ tres' = [op |-> "update", task_id |-> ulocal[u].task_id,
                task |-> tasks'[ulocal[u].task_id]]
    /\ upc' = [upc EXCEPT ![u] = "idle"]
    /\ ulocal' = [ulocal EXCEPT ![u] = NoUpdate]
    /\ UNCHANGED kvars

NextTasks ==
    \/ Tick /\ Untracked
    \/ \E task_id \in TaskIds, paper \in Papers : CreateTask(task_id, paper)
    \/ \E task_id \in TaskIds : GetTask(task_id)
    \/ \E u \in Updaters, task_id \in TaskIds, patch \in Patches :
          UpdateBegin(u, task_id, patch)
    \/ \E u \in Updaters : UpdateSetattr(u)
    \/ \E u \in Updaters : UpdateFinish(u)

SpecTasks == InitSession /\ [][NextTasks]_vars

\* ------------------------------------------------------------------ SpecTranslate
\* tail_max, scaled down from 80, and the number of tail entries the error
\* message shows, scaled down from 40; the runner passes at most MaxChunks
\* chunks to on_text.
tail_max == 3
TailShown == 2
MaxChunks == 4

\* A chunk of output as on_text receives it: its text and what each of the
\* four recognizers finds in it: <<>> for no match, <<v>> for a percentage,
\* <<i, n>> for a ratio. Progress values are in hundredths; the ratios of the
\* model have denominators that divide 100.
NoMatch == <<>>
ChEmpty == [text |-> "", tqdm |-> NoMatch, plain |-> NoMatch, page |-> NoMatch, frac |-> NoMatch]
ChWords == [text |-> "loading", tqdm |-> NoMatch, plain |-> NoMatch, page |-> NoMatch,
            frac |-> NoMatch]
ChTqdm10 == [text |-> "10%|#", tqdm |-> <<10>>, plain |-> <<10>>, page |-> NoMatch,
             frac |-> NoMatch]
ChTqdm5 == [text |-> "5%|", tqdm |-> <<5>>, plain |-> <<5>>, page |-> NoMatch, frac |-> NoMatch]
ChPlain50 == [text |-> "50% done", tqdm |-> NoMatch, plain |-> <<50>>, page |-> NoMatch,
              frac |-> NoMatch]
ChTqdm100 == [text |-> "100%|##", tqdm |-> <<100>>, plain |-> <<100>>, page |-> NoMatch,
              frac |-> NoMatch]
ChOver == [text |-> "250%|", tqdm |-> <<250>>, plain |-> <<250>>, page |-> NoMatch,
           frac |-> NoMatch]
ChPage == [text |-> "page 1/2", tqdm |-> NoMatch, plain |-> NoMatch, page |-> <<1, 2>>,
           frac |-> <<1, 2>>]
ChFrac == [text |-> "3/2", tqdm |-> NoMatch, plain |-> NoMatch, page |-> NoMatch,
           frac |-> <<3, 2>>]
Chunks == {ChEmpty, ChWords, ChTqdm10, ChTqdm5, ChPlain50, ChTqdm100, ChOver, ChPage, ChFrac}

\* max(0.0, min(1.0, i / n)), in hundredths
Clamp(i, n) ==
    LET v == (i * 100) \div n
        low == IF v < 100 THEN v ELSE 100
    IN  IF low > 0 THEN low ELSE 0

\* _extract_progress
ExtractProgress(chunk) ==
    IF chunk.text = "" THEN NoProgress
    ELSE IF chunk.tqdm # NoMatch /\ 0 <= chunk.tqdm[1] /\ chunk.tqdm[1] <= 100
    THEN chunk.tqdm[1]
    ELSE IF chunk.plain # NoMatch /\ 0 <= chunk.plain[1] /\ chunk.plain[1] <= 100
    THEN chunk.plain[1]
    ELSE IF chunk.page # NoMatch /\ chunk.page[2] > 0
    THEN Clamp(chunk.page[1], chunk.page[2])
    ELSE IF chunk.frac # NoMatch /\ chunk.frac[2] > 0
    THEN Clamp(chunk.frac[1], chunk.frac[2])
    ELSE NoProgress

\* q[-k:]
LastOf(q, k) == IF Len(q) <= k THEN q ELSE SubSeq(q, Len(q) - k + 1, Len(q))

\* A faulty variant of TailText: the first entries of tail instead of the last.
TailTextFromFront(q) ==
    IF q = <<>> THEN <<"(no output captured)">>
    ELSE SubSeq(q, 1, IF Len(q) < TailShown THEN Len(q) ELSE TailShown)

\* Line 288: the lines of tail_text
TailText(q) == IF q = <<>> THEN <<"(no output captured)">> ELSE LastOf(q, TailShown)

\* A faulty variant of PassesOn: a value equal to the last one is passed on too.
PassesOnRepeats(p, last) == last = NoProgress \/ p >= last

\* Line 266: last_p is None or p > last_p
PassesOn(p, last) == last = NoProgress \/ p > last

\* run_pdf2zh_translate up to the start of the subprocess, lines 210-279: the
\* checks of the input and the executable, the transcript log, and the
\* callback that reports the start.
Call(input_exists, bin_found, log_path, keep_dual) ==
    /\ xpc = "idle"
    /\ xin' = [log_path |-> log_path, keep_dual |-> keep_dual]
    /\ IF ~input_exists
       THEN /\ xres' = [NoOutcome EXCEPT !.kind = "input_not_found"]
            /\ xpc' = "raised"
            /\ UNCHANGED <<stdout_file, cbs>>
       ELSE IF ~bin_found
       THEN /\ xres' = [NoOutcome EXCEPT !.kind = "bin_not_found"]
            /\ xpc' = "raised"
            /\ UNCHANGED <<stdout_file, cbs>>
       ELSE /\ stdout_file' = IF log_path THEN "open" ELSE "none"
            /\ cbs' = Append(cbs, 0)
            /\ xpc' = "running"
            /\ UNCHANGED xres
    /\ UNCHANGED <<written, tail, last_p, xout>>
    /\ UNCHANGED xvars

\* on_text(text), lines 248-272, called by the runner for one chunk of the
\* subprocess's output.
OnText(chunk) ==
    /\ xpc = "running"
    /\ Len(xout) < MaxChunks
    /\ xout' = Append(xout, chunk)
    /\ written' = IF stdout_file = "open" THEN written + 1 ELSE written
    /\ tail' = IF chunk.text = "" THEN tail
               ELSE LET longer == Append(tail, chunk.text)
                    IN  IF Len(longer) > tail_max THEN LastOf(longer, tail_max) ELSE longer
    /\ LET p == ExtractProgress(chunk)
       IN  IF p # NoProgress /\ PassesOn(p, last_p)
           THEN /\ last_p' = p
                /\ cbs' = Append(cbs, p)
           ELSE UNCHANGED <<last_p, cbs>>
    /\ UNCHANGED <<xpc, xin, stdout_file, xres>>
    /\ UNCHANGED xvars

\* Lines 283-293: the runner returns the subprocess's exit code rc; a
\* non-zero code raises with the tail, and finally closes the transcript log.
Exit(rc) ==
    /\ xpc = "running"
    /\ IF rc # 0
       THEN /\ xres' = [NoOutcome EXCEPT !.kind = "exit", !.tail_text = TailText(tail)]
            /\ xpc' = "raised"
       ELSE /\ xpc' = "locate"
            /\ UNCHANGED xres
    /\ stdout_file' = IF stdout_file = "open" THEN "closed" ELSE stdout_file
    /\ UNCHANGED <<xin, written, tail, last_p, cbs, xout>>
    /\ UNCHANGED xvars

\* Lines 295-308: the outputs are looked for; without a mono output the call
\* raises, otherwise the dual output is removed unless it is to be kept.
\* mono1, mono2, dual: whether <stem>-mono.pdf, <stem>-zh.pdf and
\* <stem>-dual.pdf exist.
Locate(mono1, mono2, dual) ==
    /\ xpc = "locate"
    /\ LET mono == IF mono1 THEN "mono" ELSE "zh"
           mono_exists == IF mono1 THEN TRUE ELSE mono2
       IN  IF ~mono_exists
           THEN /\ xres' = [NoOutcome EXCEPT !.kind = "mono_not_found"]
                /\ xpc' = "raised"
           ELSE /\ xres' = [NoOutcome EXCEPT !.mono = mono,
                                             !.dual = IF dual /\ xin.keep_dual
                                                      THEN "dual" ELSE "gone"]
                /\ xpc' = "finish"
    /\ UNCHANGED <<xin, stdout_file, written, tail, last_p, cbs, xout>>
    /\ UNCHANGED xvars

\* A faulty variant of FinishedCbs: the call returns without a last callback.
FinishedSilently(q) == q

\* progress_cb(1.0, ...) of line 313
FinishedCbs(q) == Append(q, 100)

\* Lines 310-321: progress_cb(1.0) reports the end and the result is returned.
Finish ==
    /\ xpc = "finish"
    /\ cbs' = FinishedCbs(cbs)
    /\ xres' = [xres EXCEPT !.kind = "result",
                            !.dual = IF xres.dual = "dual" THEN "dual" ELSE ""]
    /\ xpc' = "returned"
    /\ UNCHANGED <<xin, stdout_file, written, tail, last_p, xout>>
    /\ UNCHANGED xvars

NextTranslate ==
    \/ \E input_exists \in BOOLEAN, bin_found \in BOOLEAN, log_path \in BOOLEAN,
          keep_dual \in BOOLEAN : Call(input_exists, bin_found, log_path, keep_dual)
    \/ \E chunk \in Chunks : OnText(chunk)
    \/ \E rc \in {0, 1} : Exit(rc)
    \/ \E mono1 \in BOOLEAN, mono2 \in BOOLEAN, dual \in BOOLEAN : Locate(mono1, mono2, dual)
    \/ Finish

SpecTranslate == InitSession /\ [][NextTranslate]_vars

\* ------------------------------------------------------------------ SpecIndex
\* The save of upsert(record, save=true) and update(key, save=true, patch),
\* step by step: models/pdf_cache.py is not part of the sources, and the steps
\* are the spec's: the in-memory map is updated together with the persisted
\* write, which goes to a temp file that is then renamed over the index file.

\* A faulty variant of WriteTarget: the index file is rewritten in place.
WriteInPlace == "index"

\* The file the serialised index is written to.
WriteTarget == "temp"

\* The records and patches of the calls the download tool makes.
IndexRecords ==
    {[exists |-> TRUE, status |-> st, size_bytes |-> 0, sha256 |-> "", error |-> NoError] :
        st \in {"DOWNLOADING", "READY"}}
IndexPatches ==
    {[status |-> "READY", size_bytes |-> 2048, sha256 |-> "A", error |-> NoError],
     [status |-> "FAILED", error |-> "invalid"],
     [status |-> "DOWNLOADING", error |-> NoError]}

\* The in-memory part of a mutating call; then its save begins.
Mutated(idx) ==
    /\ assets' = idx
    /\ ipre' = idisk
    /\ ipc' = "write"
    /\ UNCHANGED <<idisk, itmp, crashed>>
    /\ UNCHANGED ivars

\* upsert(record, save=true)
Upsert(paper_id, record) ==
    /\ ipc = "idle" /\ ~crashed
    /\ Mutated(IndexUpsert(assets, paper_id, record))

\* update(key, save=true, patch); a no-op returning none when the key is absent
Update(paper_id, patch) ==
    /\ ipc = "idle" /\ ~crashed
    /\ IF IndexGet(assets, paper_id).exists
       THEN Mutated(IndexUpdate(assets, paper_id, patch))
       ELSE UNCHANGED vars

\* The write of the serialised index begins: the file it goes to is created
\* or truncated and holds part of the content.
WriteStart ==
    /\ ipc = "write" /\ ~crashed
    /\ IF WriteTarget = "temp"
       THEN itmp' = NotAnIndex /\ UNCHANGED idisk
       ELSE idisk' = NotAnIndex /\ UNCHANGED itmp
    /\ ipc' = "write_rest"
    /\ UNCHANGED <<assets, ipre, crashed>>
    /\ UNCHANGED ivars

\* The write completes.
WriteRest ==
    /\ ipc = "write_rest" /\ ~crashed
    /\ IF WriteTarget = "temp"
       THEN itmp' = Serialised(assets) /\ UNCHANGED idisk
       ELSE idisk' = Serialised(assets) /\ UNCHANGED itmp
    /\ ipc' = "rename"
    /\ UNCHANGED <<assets, ipre, crashed>>
    /\ UNCHANGED ivars

\* The temp file is renamed over the index file, and the call returns.
Rename ==
    /\ ipc = "rename" /\ ~crashed
    /\ IF WriteTarget = "temp"
       THEN idisk' = itmp /\ itmp' = NotAnIndex
       ELSE UNCHANGED <<idisk, itmp>>
    /\ ipc' = "idle"
    /\ UNCHANGED <<assets, ipre, crashed>>
    /\ UNCHANGED ivars

\* The process fails, at any point of a call or between calls.
Crash ==
    /\ ~crashed
    /\ crashed' = TRUE
    /\ UNCHANGED <<assets, idisk, itmp, ipc, ipre>>
    /\ UNCHANGED ivars

\* A new process starts and loads the index file; a temp file the failed
\* process left stays where it is.
Restart ==
    /\ crashed
    /\ idisk.ok
    /\ assets' = idisk.index
    /\ ipc' = "idle"
    /\ ipre' = idisk
    /\ crashed' = FALSE
    /\ UNCHANGED <<idisk, itmp>>
    /\ UNCHANGED ivars

NextIndex ==
    \/ \E paper_id \in PaperIds, record \in IndexRecords : Upsert(paper_id, record)
    \/ \E paper_id \in PaperIds, patch \in IndexPatches : Update(paper_id, patch)
    \/ WriteStart
    \/ WriteRest
    \/ Rename
    \/ Crash
    \/ Restart

SpecIndex == InitSession /\ [][NextIndex]_vars

\* ------------------------------------------------------------------ Spec: downloads
\* download_arxiv_pdf from line 61 on, for a paper_id the resolver produced.
\* Each action is one access to what the callers share: the directory, the
\* lock file, the index.

\* The directory as a process may find it at start: empty, or holding a PDF
\* fetched earlier for which the index has no record.
Init ==
    /\ now = 0
    /\ sessions = [sid \in SessionIds |-> NoSession]
    /\ tpc = [t \in Threads |-> "idle"]
    /\ tlocal = [t \in Threads |-> NoLocal]
    /\ tret = NoRet
    /\ lastSet = [sid \in SessionIds |-> NoSet]
    /\ seen = [t \in Threads |-> {}]
    /\ files \in {[d \in Dests |-> NoFile],
                  [d \in Dests |-> IF d = LocalPath(Id1) THEN PdfA ELSE NoFile]}
    /\ part = [d \in Dests |-> NoFile]
    /\ lock = [d \in Dests |-> FALSE]
    /\ lockOwner = [d \in Dests |-> NoCaller]
    /\ assets = [p \in PaperIds |-> NoAsset]
    /\ pc = [c \in Callers |-> "idle"]
    /\ local = [c \in Callers |-> NoLocals]
    /\ ret = NoCall
    /\ TasksIdle

\* The call so far, as the history variable ret records it when the call
\* returns or raises; ret is forgotten when the next call begins. prior is the
\* index record the call read at line 66, kept for calls on the fast path.
Completed(c, status) ==
    [paper_id |-> local[c].paper_id, force |-> local[c].force,
     existed |-> local[c].existed,
     prior |-> IF pc[c] # "fast" THEN ""
               ELSE IF local[c].asset_exists THEN local[c].asset_status ELSE "absent",
     status |-> status]

\* Lines 61-65: the call starts and tests whether the destination exists.
Begin(c, paper_id, force) ==
    /\ pc[c] = "idle"
    /\ local' = [local EXCEPT ![c] =
                    [NoLocals EXCEPT !.paper_id = paper_id, !.force = force,
                                     !.local_path = LocalPath(paper_id),
                                     !.existed = ExistsNonEmpty(files[LocalPath(paper_id)])]]
    /\ pc' = [pc EXCEPT ![c] = "get_asset"]
    /\ ret' = NoCall
    /\ UNCHANGED <<files, part, lock, lockOwner, assets>>
    /\ UNCHANGED svars

\* Lines 66-68 and 101: asset = store.get_pdf_asset(paper_id), then the branch.
GetAsset(c) ==
    /\ pc[c] = "get_asset"
    /\ LET asset == IndexGet(assets, local[c].paper_id)
       IN  local' = [local EXCEPT ![c].asset_exists = asset.exists,
                                  ![c].asset_status = asset.status]
    /\ pc' = [pc EXCEPT ![c] = IF local[c].existed /\ ~local[c].force
                               THEN "fast" ELSE "acquire"]
    /\ UNCHANGED <<files, part, lock, lockOwner, assets, ret>>
    /\ UNCHANGED svars

\* A fast path that returns without touching the index.
FastRepairSkipped(idx, c) == idx

\* Lines 69-90: the index after the fast path's repair.
FastRepair(idx, c) ==
    LET paper_id == local[c].paper_id
        size == files[LocalPath(paper_id)].size
    IN  IF ~local[c].asset_exists
        THEN IndexUpsert(idx, paper_id,
                         [exists |-> TRUE, status |-> "READY", size_bytes |-> size,
                          sha256 |-> "", error |-> NoError])
        ELSE IF local[c].asset_status # "READY"
        THEN IndexUpdate(idx, paper_id,
                         [status |-> "READY", size_bytes |-> size, error |-> NoError])
        ELSE idx

\* Lines 68-98: the fast path; the call returns READY with existed = True.
FastPath(c) ==
    /\ pc[c] = "fast"
    /\ assets' = FastRepair(assets, c)
    /\ ret' = Completed(c, "READY")
    /\ pc' = [pc EXCEPT ![c] = "idle"]
    /\ local' = [local EXCEPT ![c] = NoLocals]
    /\ UNCHANGED <<files, part, lock, lockOwner>>
    /\ UNCHANGED svars

\* A faulty variant of MayRetry: one attempt more than retries allows.
MayRetryOnceMore(tries) == tries < retries

\* acquire_lock, `for _ in range(retries)`: after `tries` failed attempts and
\* one more, is there another attempt?
MayRetry(tries) == tries + 1 < retries

\* acquire_lock, one turn of its loop: the lock file is created, or it exists
\* and the caller sleeps; after `retries` failed attempts the call raises.
AcquireLock(c) ==
    /\ pc[c] = "acquire"
    /\ LET dest == LocalPath(local[c].paper_id)
       IN  IF CanCreateExclusive(lock, dest)
           THEN /\ lock' = [lock EXCEPT ![dest] = TRUE]
                /\ lockOwner' = [lockOwner EXCEPT ![dest] = c]
                /\ pc' = [pc EXCEPT ![c] = "mark_downloading"]
                /\ UNCHANGED <<local, ret>>
           ELSE IF MayRetry(local[c].tries)
           THEN /\ local' = [local EXCEPT ![c].tries = @ + 1]
                /\ UNCHANGED <<lock, lockOwner, pc, ret>>
           ELSE /\ ret' = Completed(c, "LOCK_BUSY")
                /\ pc' = [pc EXCEPT ![c] = "idle"]
                /\ local' = [local EXCEPT ![c] = NoLocals]
                /\ UNCHANGED <<lock, lockOwner>>
    /\ UNCHANGED <<files, part, assets>>
    /\ UNCHANGED svars

\* Lines 106-125: the asset is marked DOWNLOADING. index_fails: the index write
\* raises (the file cannot be written), and the handler of line 151 runs. The
\* call does not read `asset` again, so the model drops it here.
MarkDownloading(c, index_fails) ==
    /\ pc[c] = "mark_downloading"
    /\ IF index_fails
       THEN /\ local' = [local EXCEPT ![c].err = "index", ![c].asset_exists = FALSE,
                                       ![c].asset_status = ""]
            /\ pc' = [pc EXCEPT ![c] = "except"]
            /\ UNCHANGED assets
       ELSE /\ assets' =
                 IF ~local[c].asset_exists
                 THEN IndexUpsert(assets, local[c].paper_id,
                                  [exists |-> TRUE, status |-> "DOWNLOADING",
                                   size_bytes |-> 0, sha256 |-> "", error |-> NoError])
                 ELSE IndexUpdate(assets, local[c].paper_id,
                                  [status |-> "DOWNLOADING", error |-> NoError])
            /\ pc' = [pc EXCEPT ![c] = "fetch"]
            /\ local' = [local EXCEPT ![c].asset_exists = FALSE, ![c].asset_status = ""]
    /\ UNCHANGED <<files, part, lock, lockOwner, ret>>
    /\ UNCHANGED svars

\* download_pdf, lines 71-94: a stale temp file is removed, the request is sent
\* and the body is written to the temp file. outcome "http": an error status
\* (or no response) raises before the temp file is opened; "stream":
\* iter_content raises after the temp file was opened; "ok": the body arrived.
\* Only the holder of the lock reads or writes the temp file, so no other
\* caller can tell these steps apart.
Fetch(c, outcome, body) ==
    /\ pc[c] = "fetch"
    /\ LET dest == LocalPath(local[c].paper_id)
       IN  CASE outcome = "http" ->
                  /\ part' = [part EXCEPT ![dest] = NoFile]
                  /\ local' = [local EXCEPT ![c].net = TRUE, ![c].err = "http"]
                  /\ pc' = [pc EXCEPT ![c] = "except"]
             [] outcome = "stream" ->
                  /\ part' = [part EXCEPT ![dest] = Truncated(body)]
                  /\ local' = [local EXCEPT ![c].net = TRUE, ![c].err = "stream"]
                  /\ pc' = [pc EXCEPT ![c] = "except"]
             [] outcome = "ok" ->
                  /\ part' = [part EXCEPT ![dest] = body]
                  /\ local' = [local EXCEPT ![c].net = TRUE]
                  /\ pc' = [pc EXCEPT ![c] = "validate"]
    /\ UNCHANGED <<files, lock, lockOwner, assets, ret>>
    /\ UNCHANGED svars

\* download_pdf, lines 97-106: a temp file that fails the check is removed and
\* the call raises; one that passes replaces the destination.
Validate(c) ==
    /\ pc[c] = "validate"
    /\ LET dest == LocalPath(local[c].paper_id)
       IN  IF PassesValidation(part[dest])
           THEN /\ files' = [files EXCEPT ![dest] = part[dest]]
                /\ part' = [part EXCEPT ![dest] = NoFile]
                /\ pc' = [pc EXCEPT ![c] = "mark_ready"]
                /\ local' = [local EXCEPT ![c].body = part[dest]]
           ELSE /\ part' = [part EXCEPT ![dest] = NoFile]
                /\ local' = [local EXCEPT ![c].err = "invalid"]
                /\ pc' = [pc EXCEPT ![c] = "except"]
                /\ UNCHANGED files
    /\ UNCHANGED <<lock, lockOwner, assets, ret>>
    /\ UNCHANGED svars

\* Lines 131-138: the asset is marked READY with the size and digest
\* download_pdf returned.
MarkReady(c, index_fails) ==
    /\ pc[c] = "mark_ready"
    /\ IF index_fails
       THEN /\ local' = [local EXCEPT ![c].err = "index", ![c].body = NoFile]
            /\ pc' = [pc EXCEPT ![c] = "except"]
            /\ UNCHANGED assets
       ELSE /\ assets' = IndexUpdate(assets, local[c].paper_id,
                                     [status |-> "READY", size_bytes |-> local[c].body.size,
                                      sha256 |-> local[c].body.sha, error |-> NoError])
            /\ local' = [local EXCEPT ![c].body = NoFile]
            /\ pc' = [pc EXCEPT ![c] = "finally"]
    /\ UNCHANGED <<files, part, lock, lockOwner, ret>>
    /\ UNCHANGED svars

\* A faulty variant of FailedPatch: the error is not recorded.
FailedPatchWithoutError(err) == [status |-> "FAILED", error |-> NoError]

\* Line 152: the keyword arguments status="FAILED", error=str(e)
FailedPatch(err) == [status |-> "FAILED", error |-> err]

\* Lines 151-153: the handler marks the asset FAILED with str(e) and re-raises.
Except(c) ==
    /\ pc[c] = "except"
    /\ assets' = IndexUpdate(assets, local[c].paper_id, FailedPatch(local[c].err))
    /\ pc' = [pc EXCEPT ![c] = "finally"]
    /\ UNCHANGED <<files, part, lock, lockOwner, local, ret>>
    /\ UNCHANGED svars

\* Lines 154-155: release_lock, and the call returns or raises.
Finally(c) ==
    /\ pc[c] = "finally"
    /\ LET dest == LocalPath(local[c].paper_id)
       IN  /\ lock' = ReleaseLock(lock, dest)
           /\ lockOwner' = [lockOwner EXCEPT ![dest] = IF lock'[dest] THEN @ ELSE NoCaller]
    /\ ret' = Completed(c, IF local[c].err = NoError THEN "READY" ELSE local[c].err)
    /\ pc' = [pc EXCEPT ![c] = "idle"]
    /\ local' = [local EXCEPT ![c] = NoLocals]
    /\ UNCHANGED <<files, part, assets>>
    /\ UNCHANGED svars

Next ==
    \/ \E c \in Callers, paper_id \in PaperIds, force \in BOOLEAN : Begin(c, paper_id, force)
    \/ \E c \in Callers : GetAsset(c)
    \/ \E c \in Callers : FastPath(c)
    \/ \E c \in Callers : AcquireLock(c)
    \/ \E c \in Callers, index_fails \in BOOLEAN : MarkDownloading(c, index_fails)
    \/ \E c \in Callers, outcome \in {"http", "stream", "ok"}, body \in Bodies :
          Fetch(c, outcome, body)
    \/ \E c \in Callers : Validate(c)
    \/ \E c \in Callers, index_fails \in BOOLEAN : MarkReady(c, index_fails)
    \/ \E c \in Callers : Except(c)
    \/ \E c \in Callers : Finally(c)

Spec == Init /\ [][Next]_vars

\* The downloads with the loop of acquire_lock going on: a caller inside
\* acquire_lock sleeps delay_s and makes its next attempt.
\* The downloads when no caller forces a re-download.
NextNoForce ==
    \/ \E c \in Callers, paper_id \in PaperIds : Begin(c, paper_id, FALSE)
    \/ \E c \in Callers : GetAsset(c)
    \/ \E c \in Callers : FastPath(c)
    \/ \E c \in Callers : AcquireLock(c)
    \/ \E c \in Callers, index_fails \in BOOLEAN : MarkDownloading(c, index_fails)
    \/ \E c \in Callers, outcome \in {"http", "stream", "ok"}, body \in Bodies :
          Fetch(c, outcome, body)
    \/ \E c \in Callers : Validate(c)
    \/ \E c \in Callers, index_fails \in BOOLEAN : MarkReady(c, index_fails)
    \/ \E c \in Callers : Except(c)
    \/ \E c \in Callers : Finally(c)

SpecNoForce == Init /\ [][NextNoForce]_vars

\* The process of a caller that holds the lock ends at once (killed, power
\* lost): no except or finally block of it runs.
HolderCrash(c) ==
    /\ pc[c] \in {"mark_downloading", "fetch", "validate", "mark_ready", "except", "finally"}
    /\ pc' = [pc EXCEPT ![c] = "crashed"]
    /\ UNCHANGED <<files, part, lock, lockOwner, assets, local, ret>>
    /\ UNCHANGED svars

NextLock ==
    \/ \E c \in Callers, paper_id \in PaperIds, force \in BOOLEAN : Begin(c, paper_id, force)
    \/ \E c \in Callers : GetAsset(c)
    \/ \E c \in Callers : FastPath(c)
    \/ \E c \in Callers : AcquireLock(c)
    \/ \E c \in Callers : MarkDownloading(c, FALSE)
    \/ \E c \in Callers, outcome \in {"http", "ok"} : Fetch(c, outcome, PdfA)
    \/ \E c \in Callers : Validate(c)
    \/ \E c \in Callers : MarkReady(c, FALSE)
    \/ \E c \in Callers : Except(c)
    \/ \E c \in Callers : Finally(c)

\* The downloads of callers in processes of their own, any of which may end
\* while it holds the lock.
NextStale ==
    \/ \E c \in Callers, paper_id \in PaperIds, force \in BOOLEAN : Begin(c, paper_id, force)
    \/ \E c \in Callers : GetAsset(c)
    \/ \E c \in Callers : FastPath(c)
    \/ \E c \in Callers : AcquireLock(c)
    \/ \E c \in Callers : MarkDownloading(c, FALSE)
    \/ \E c \in Callers, outcome \in {"http", "ok"} : Fetch(c, outcome, PdfA)
    \/ \E c \in Callers : Validate(c)
    \/ \E c \in Callers : MarkReady(c, FALSE)
    \/ \E c \in Callers : Except(c)
    \/ \E c \in Callers : Finally(c)
    \/ \E c \in Callers : HolderCrash(c)

SpecStale ==
    /\ Init
    /\ [][NextStale]_vars
    /\ \A c \in Callers : WF_vars(AcquireLock(c))

SpecLockFair ==
    /\ Init
    /\ [][NextLock]_vars
    /\ \A c \in Callers : WF_vars(AcquireLock(c))

\* ---------------------------------------------------------------------------
\* download_arxiv_pdf from its first line: the paper and the address are
\* resolved from the session memory, then the download steps above run.

\* The ids a session can hold as its last active paper: ids of papers, an id
\* no list holds, an id made of digits and an id that is part of a title
\* (get_paper_cache_status records whatever paper_id it is given).
IdDigits == <<"1">>
IdInTitle == <<"a", "n">>
ToolIds == {Id1, Id2, IdUnknown, IdDigits, IdInTitle}
ToolDests == {LocalPath(p) : p \in ToolIds}
ToolCallers == {"c1"}
ToolRefs == {RefNone, IntRef(1)}
ToolBodies == {PdfA, HtmlPage}

\* _fallback_pdf_url
FallbackUrl(paper_id) == <<ArxivPdf>> \o paper_id \o <<".", "p", "d", "f">>

RECURSIVE RStripSlash(_)
RStripSlash(s) ==
    IF s # <<>> /\ s[Len(s)] = "/" THEN RStripSlash(SubSeq(s, 1, Len(s) - 1)) ELSE s

EndsWithPdf(s) == Len(s) >= 4 /\ SubSeq(s, Len(s) - 3, Len(s)) = <<".", "p", "d", "f">>

\* normalize_arxiv_pdf_url on a non-empty address without query or fragment
NormalizeUrl(url) ==
    LET path == RStripSlash(Strip(url))
    IN  IF EndsWithPdf(path) THEN path ELSE path \o <<".", "p", "d", "f">>

\* A faulty variant of UrlOr: the address is always synthesized.
UrlAlwaysFallback(paper, paper_id) == FallbackUrl(paper_id)

\* (paper.pdf_url if paper else None) or _fallback_pdf_url(paper_id)
UrlOr(paper, paper_id) ==
    IF paper.pdf_url # <<>> THEN paper.pdf_url ELSE FallbackUrl(paper_id)

\* store.resolve_paper(sid, ref) run without interruption
ResolvePaperFn(ss, sid, ref, clock) ==
    LET r == GetLastPapersFn(ss, sid, clock)
    IN  IF r.val = <<>> THEN [ss |-> r.ss, val |-> NoPaper]
        ELSE IF ref.kind = "none"
        THEN LET g == GetLastActiveFn(r.ss, sid, clock)
             IN  [ss |-> g.ss, val |-> ResolveByLastId(r.val, g.val)]
        ELSE [ss |-> r.ss, val |-> ResolveGiven(r.val, ref)]

\* Lines 37-65 of download_arxiv_pdf: the paper id and the address are
\* resolved, the id becomes the session's last active paper, and the file is
\* looked up. A ValueError of lines 45 and 52 ends the call at once.
DownloadCall(c, sid, ref, force) ==
    /\ pc[c] = "idle"
    /\ LET g == GetLastActiveFn(sessions, sid, now)
           last_id == g.val
           r == IF ref.kind = "none"
                THEN IF last_id = NoneId THEN [ss |-> g.ss, val |-> NoPaper]
                     ELSE ResolvePaperFn(g.ss, sid, StrRef(last_id), now)
                ELSE ResolvePaperFn(sessions, sid, ref, now)
           paper == r.val
           paper_id == IF ref.kind = "none" THEN last_id ELSE paper.id
       IN  IF paper_id = NoneId \/ paper = ValueErrorRaised
           THEN /\ sessions' = r.ss
                /\ ret' = [NoCall EXCEPT !.status = "ValueError"]
                /\ UNCHANGED <<pc, local>>
           ELSE /\ sessions' = SetLastActiveFn(r.ss, sid, paper_id, now)
                /\ local' = [local EXCEPT ![c] =
                                [NoLocals EXCEPT
                                    !.paper_id = paper_id, !.force = force,
                                    !.pdf_url = NormalizeUrl(UrlOr(paper, paper_id)),
                                    !.local_path = LocalPath(paper_id),
                                    !.existed = ExistsNonEmpty(files[LocalPath(paper_id)])]]
                /\ pc' = [pc EXCEPT ![c] = "get_asset"]
                /\ ret' = NoCall
    /\ UNCHANGED <<files, part, lock, lockOwner, assets>>
    /\ UNCHANGED <<now, tpc, tlocal, tret, lastSet, seen>>
    /\ UNCHANGED <<taskVars, translateVars, indexVars>>

InitTool ==
    /\ now = 0
    /\ sessions \in
         {[sid \in SessionIds |-> NoSession]} \cup
         {SetLastActiveFn(SetLastPapersFn([sid \in SessionIds |-> NoSession],
                                          s, papers, 0), s, a, 0) :
              s \in SessionIds, papers \in InputLists, a \in ToolIds \cup {NoneId}}
    /\ tpc = [t \in Threads |-> "idle"]
    /\ tlocal = [t \in Threads |-> NoLocal]
    /\ tret = NoRet
    /\ lastSet = [sid \in SessionIds |-> NoSet]
    /\ seen = [t \in Threads |-> {}]
    /\ files = [d \in ToolDests |-> NoFile]
    /\ part = [d \in ToolDests |-> NoFile]
    /\ lock = [d \in ToolDests |-> FALSE]
    /\ lockOwner = [d \in ToolDests |-> NoCaller]
    /\ assets = [p \in ToolIds |-> NoAsset]
    /\ pc = [c \in Callers |-> "idle"]
    /\ local = [c \in Callers |-> NoLocals]
    /\ ret = NoCall
    /\ TasksIdle

NextTool ==
    \/ Tick /\ Untracked
    \/ \E c \in ToolCallers, sid \in SessionIds, ref \in ToolRefs, force \in BOOLEAN :
          DownloadCall(c, sid, ref, force)
    \/ \E c \in ToolCallers : GetAsset(c)
    \/ \E c \in ToolCallers : FastPath(c)
    \/ \E c \in ToolCallers : AcquireLock(c)
    \/ \E c \in ToolCallers : MarkDownloading(c, FALSE)
    \/ \E c \in ToolCallers, outcome \in {"http", "ok"}, body \in ToolBodies :
          Fetch(c, outcome, body)
    \/ \E c \in ToolCallers : Validate(c)
    \/ \E c \in ToolCallers : MarkReady(c, FALSE)
    \/ \E c \in ToolCallers : Except(c)
    \/ \E c \in ToolCallers : Finally(c)

SpecTool == InitTool /\ [][NextTool]_vars

\* ---------------------------------------------------------------------------
\* The first download of a process, for every paper id of up to MaxNameLen
\* characters, with the arXiv server out of reach.
MaxNameLen == 3
NameChars == {"a", "_", "/", " "}
NameIds == SeqsUpTo(NameChars, MaxNameLen) \ {<<>>}
NameDests == {LocalPath(p) : p \in NameIds}

InitNames ==
    /\ now = 0
    /\ sessions = [sid \in SessionIds |-> NoSession]
    /\ tpc = [t \in Threads |-> "idle"]
    /\ tlocal = [t \in Threads |-> NoLocal]
    /\ tret = NoRet
    /\ lastSet = [sid \in SessionIds |-> NoSet]
    /\ seen = [t \in Threads |-> {}]
    /\ files = [d \in NameDests |-> IF d = LocalPath(<<"a">>) THEN PdfA ELSE NoFile]
    /\ part = [d \in NameDests |-> NoFile]
    /\ lock = [d \in NameDests |-> FALSE]
    /\ lockOwner = [d \in NameDests |-> NoCaller]
    /\ assets = [p \in NameIds |-> NoAsset]
    /\ pc = [c \in Callers |-> "idle"]
    /\ local = [c \in Callers |-> NoLocals]
    /\ ret = NoCall
    /\ TasksIdle

NextNames ==
    \/ \E c \in ToolCallers, paper_id \in NameIds, force \in BOOLEAN :
          /\ assets = [p \in NameIds |-> NoAsset]
          /\ ret = NoCall
          /\ Begin(c, paper_id, force)
    \/ \E c \in ToolCallers : GetAsset(c)
    \/ \E c \in ToolCallers : FastPath(c)
    \/ \E c \in ToolCallers : AcquireLock(c)
    \/ \E c \in ToolCallers : MarkDownloading(c, FALSE)
    \/ \E c \in ToolCallers : Fetch(c, "http", PdfA)
    \/ \E c \in ToolCallers : Except(c)
    \/ \E c \in ToolCallers : Finally(c)

SpecNames == InitNames /\ [][NextNames]_vars

\* ------------------------------------------------------------------ claims: tasks

\* A task with every field of a patch set.
RECURSIVE Patched(_, _)
Patched(t, patch) ==
    IF patch = <<>> THEN t
    ELSE Patched([t EXCEPT ![Head(patch)[1]] = Head(patch)[2]], Tail(patch))

SameButTime(t1, t2) == [t1 EXCEPT !.updated_at = NoTime] = [t2 EXCEPT !.updated_at = NoTime]

\* C12: update_task is atomic relative to get_task: whatever get_task returns
\* while an update_task call on that task is in progress is the task as it was
\* before the call or the task with the whole patch applied, never a task
\* with part of the patch.
C12_WholePatches ==
    [][\A task_id \in TaskIds, u \in Updaters :
          (GetTask(task_id) /\ upc[u] = "setattr" /\ ulocal[u].task_id = task_id)
          => \/ tres'.task = ulocal[u].before
             \/ SameButTime(tres'.task, Patched(ulocal[u].before, ulocal[u].patch))]_vars

\* C17: tasks are never removed; get_task returns the record of every id
\* create_translate_task returned and changes nothing; the record is created
\* with status PENDING and no other task is touched; update_task and get_task
\* on an unknown id return none and change no task.
C17_TasksKept ==
    [][/\ \A k \in TaskIds : tasks[k].exists => tasks'[k].exists
       /\ \A k \in TaskIds :
             GetTask(k) => (tasks' = tasks /\ tres'.task = tasks[k])
       /\ \A k \in TaskIds, paper \in Papers :
             CreateTask(k, paper) =>
                 /\ tres'.task.exists /\ tres'.task.status = "PENDING"
                 /\ tres'.task.paper_id = paper.id
                 /\ tasks'[k] = tres'.task
                 /\ \A j \in TaskIds \ {k} : tasks'[j] = tasks[j]
       /\ \A k \in TaskIds, u \in Updaters, patch \in Patches :
             (UpdateBegin(u, k, patch) /\ ~tasks[k].exists) =>
                 /\ tasks' = tasks
                 /\ tres'.task = NoTask
                 /\ upc'[u] = "idle"]_vars

\* update_task on an unknown id has returned none while the other task, created
\* earlier and updated since, is still there.
C17_Witness ==
    /\ tres.op = "update" /\ tres.task = NoTask
    /\ ~tasks[tres.task_id].exists
    /\ \E k \in TaskIds : tasks[k].exists /\ tasks[k].status = "SUCCEEDED"

\* ------------------------------------------------------------------ claims: index

\* C15: at every point at which the process can fail, during a mutating call of
\* the index or after it, the index file is a complete index: the one the call
\* found or the one it leaves, and between calls the one in memory.
C15_CrashSafe ==
    /\ idisk.ok
    /\ IF ipc = "idle" /\ ~crashed
       THEN idisk.index = assets
       ELSE idisk \in {ipre, Serialised(assets)}

\* The process failed while the new index was half written: the index file is
\* still the old one, which differs from the index in memory.
C15_Witness ==
    /\ crashed
    /\ ipc = "write_rest"
    /\ ~itmp.ok
    /\ idisk = ipre
    /\ idisk.index # assets

\* ------------------------------------------------------------------ claims: translator

\* The progress values parsed from the chunks, in order.
RECURSIVE ParsedOf(_)
ParsedOf(chunks) ==
    IF chunks = <<>> THEN <<>>
    ELSE LET p == ExtractProgress(Head(chunks))
         IN  (IF p = NoProgress THEN <<>> ELSE <<p>>) \o ParsedOf(Tail(chunks))

\* The values of a sequence that are greater than every value before them.
RECURSIVE Records(_, _)
Records(values, best) ==
    IF values = <<>> THEN <<>>
    ELSE IF best = NoProgress \/ Head(values) > best
    THEN <<Head(values)>> \o Records(Tail(values), Head(values))
    ELSE Records(Tail(values), best)

\* C13 as stated: every value passed to progress_cb is strictly greater than
\* the one passed before it, and output parsed as 10%, 5%, 50%, 100% yields
\* the callbacks 0.10, 0.50, 1.00 exactly.
C13_StrictlyIncreasing ==
    /\ \A i \in 2..Len(cbs) : cbs[i] > cbs[i - 1]
    /\ (xpc = "returned" /\ ParsedOf(xout) = <<10, 5, 50, 100>>) => cbs = <<10, 50, 100>>

\* C13, amended: the call passes 0.0 before the subprocess starts, then of the
\* parsed values exactly those greater than every parsed value before them,
\* and after a successful run 1.0 once more, whatever was parsed.
C13_IncreasingBetweenEnds ==
    cbs = (IF xpc = "idle" \/ xres.kind \in {"input_not_found", "bin_not_found"}
           THEN <<>> ELSE <<0>>)
          \o Records(ParsedOf(xout), NoProgress)
          \o (IF xpc = "returned" THEN <<100>> ELSE <<>>)

\* The call has returned after output parsed as 10%, 5%, 50%, 100%.
C13_Witness ==
    /\ xpc = "returned"
    /\ ParsedOf(xout) = <<10, 5, 50, 100>>
    /\ cbs = <<0, 10, 50, 100, 100>>

\* The texts of the non-empty chunks, in order.
RECURSIVE NonEmptyTexts(_)
NonEmptyTexts(chunks) ==
    IF chunks = <<>> THEN <<>>
    ELSE (IF Head(chunks).text = "" THEN <<>> ELSE <<Head(chunks).text>>)
         \o NonEmptyTexts(Tail(chunks))

\* C14: when the subprocess exits with a non-zero code the call raises, the
\* error's message holds the last (at most TailShown) non-empty chunks of the
\* output in the order they came, no result is returned, and the transcript
\* log, if it was opened, is closed.
C14_ExitError ==
    xres.kind = "exit" =>
        /\ xpc = "raised"
        /\ xres.mono = "" /\ xres.dual = ""
        /\ LET texts == NonEmptyTexts(xout)
               k == IF Len(texts) < TailShown THEN Len(texts) ELSE TailShown
           IN  texts # <<>> =>
                  xres.tail_text = [i \in 1..k |-> texts[Len(texts) - k + i]]
        /\ stdout_file = IF xin.log_path THEN "closed" ELSE "none"

\* The call raised on a non-zero exit code after more non-empty chunks than
\* tail keeps, with a transcript log.
C14_Witness ==
    /\ xres.kind = "exit"
    /\ Len(NonEmptyTexts(xout)) > tail_max
    /\ xout[1].text # xout[Len(xout)].text
    /\ xin.log_path /\ stdout_file = "closed"
    /\ Len(xres.tail_text) = TailShown

\* The callbacks of a call that has not reported the end: 0.0 once the
\* subprocess was about to start, then the parsed values that were passed on.
BeforeTheEnd ==
    (IF xpc = "idle" \/ xres.kind \in {"input_not_found", "bin_not_found"}
     THEN <<>> ELSE <<0>>)
    \o Records(ParsedOf(xout), NoProgress)

\* C21: a run_pdf2zh_translate call that returns a result has called
\* progress_cb(1.0) as its last callback, one callback more than the start and
\* the parsed values account for, with the mono output located and the dual
\* output kept or gone by then; a call that is still running, that has located
\* its outputs but not yet reported, or that raised (missing input or
\* executable, non-zero exit, mono output not found) has made no such callback.
C21_FinalOnCompletion ==
    /\ xpc = "returned" =>
          /\ xres.kind = "result"
          /\ xres.mono \in {"mono", "zh"}
          /\ xres.dual \in {"dual", ""}
          /\ cbs = Append(BeforeTheEnd, 100)
    /\ xpc \in {"running", "locate", "finish", "raised"} => cbs = BeforeTheEnd
    /\ xpc = "raised" =>
          xres.kind \in {"input_not_found", "bin_not_found", "exit", "mono_not_found"}

\* C21 witness: a call returned after output whose last passed value was
\* below 100%, so that the 1.0 at the end is the callback of line 313.
C21_Witness ==
    /\ xpc = "returned"
    /\ ParsedOf(xout) = <<10, 50>>
    /\ cbs = <<0, 10, 50, 100>>

\* ------------------------------------------------------------------ claims: downloads

\* The caller is between a successful acquire_lock and its release_lock.
InCritical(c) ==
    pc[c] \in {"mark_downloading", "fetch", "validate", "mark_ready", "except", "finally"}

DestOf(c) == LocalPath(local[c].paper_id)

\* The caller's call has been through download_pdf's request.
Fetched(c) == pc[c] \in {"validate", "mark_ready", "except", "finally"} /\ local[c].net

\* C1: of two concurrent calls with force = false on the same paper_id whose
\* destination did not exist when they started, exactly one performs network
\* I/O. Stated on the states where one such call has returned READY after
\* downloading (ret; it ended after the other call began, because a beginning
\* call erases ret): the other call has not been through download_pdf.
C1_OneDownload ==
    \A c \in Callers :
        (/\ ret.status = "READY" /\ ~ret.force /\ ~ret.existed
         /\ pc[c] # "idle" /\ ~local[c].force /\ ~local[c].existed
         /\ local[c].paper_id = ret.paper_id)
        => ~Fetched(c)

\* C2: at most one caller at a time is between a successful acquire_lock and
\* its release_lock for one destination, and the lock file exists for as long
\* as its holder is there: no caller whose acquire_lock fails removes it.
C2_MutualExclusion ==
    \A c \in Callers :
        InCritical(c) =>
            /\ lock[DestOf(c)]
            /\ \A d \in Callers \ {c} : InCritical(d) => DestOf(d) # DestOf(c)

\* One caller holds the lock while the other has given up with the lock-busy error.
C2_Witness ==
    \E c \in Callers :
        /\ InCritical(c)
        /\ ret.status = "LOCK_BUSY"
        /\ ret.paper_id = local[c].paper_id
        /\ \A d \in Callers \ {c} : pc[d] = "idle"

\* C3: a call with force = false that found the destination existing and
\* non-empty goes nowhere but the fast path; it returns READY with existed =
\* true, has sent no request, takes no lock and writes no file; and the index
\* record exists with status READY afterwards when the call had read it as
\* absent, DOWNLOADING or FAILED, and is left as it is when the call had read
\* it as READY.
C3_FastPath ==
    [][\A c \in Callers :
          /\ (pc[c] # "idle" /\ local[c].existed /\ ~local[c].force)
             => (pc[c] \in {"get_asset", "fast"} /\ ~local[c].net)
          /\ FastPath(c) =>
                /\ local[c].existed /\ ~local[c].force
                /\ ret'.status = "READY" /\ ret'.existed
                /\ lock' = lock /\ files' = files /\ part' = part
                /\ IF local[c].asset_exists /\ local[c].asset_status = "READY"
                   THEN assets' = assets
                   ELSE /\ assets'[local[c].paper_id].exists
                        /\ assets'[local[c].paper_id].status = "READY"]_vars

\* A fast-path call has returned that had read the record as FAILED, and the
\* record is READY.
C3_Witness ==
    /\ ret.status = "READY" /\ ret.existed /\ ~ret.force
    /\ ret.prior = "FAILED"
    /\ assets[ret.paper_id].status = "READY"
    /\ assets[ret.paper_id].error = NoError

\* The claim's words for a body that fails validation.
BodyRejected(content) == content.size < MinPdfSize \/ ~content.magic

\* C4 as stated: after a call whose fetched body failed validation no file
\* exists at the destination and the asset is FAILED with a non-null error.
C4_NoFileAfterRejection ==
    ret.status = "invalid" =>
        /\ ~files[LocalPath(ret.paper_id)].exists
        /\ assets[ret.paper_id].exists
        /\ assets[ret.paper_id].status = "FAILED"
        /\ assets[ret.paper_id].error # NoError

\* C4, amended: when the fetched body fails validation, the temp file is
\* removed and the destination is left as it was before the fetch (absent if
\* it was absent, the earlier file if there was one), from the check until the
\* call raises; and the call's handler leaves the asset FAILED with a non-null
\* error.
C4_RejectedBodyNotPromoted ==
    [][\A c \in Callers :
          /\ (Validate(c) /\ BodyRejected(part[DestOf(c)]))
             => (/\ files' = files
                 /\ part'[DestOf(c)] = NoFile
                 /\ local'[c].err = "invalid")
          /\ (pc[c] # "idle" /\ local[c].err = "invalid")
             => (/\ files' = files
                 /\ part'[DestOf(c)] = NoFile
                 /\ pc[c] \in {"except", "finally"})
          /\ (Except(c) /\ local[c].err = "invalid")
             => (/\ assets'[local[c].paper_id].exists
                 /\ assets'[local[c].paper_id].status = "FAILED"
                 /\ assets'[local[c].paper_id].error # NoError)]_vars

\* A forced call over a cached file fetched a body that failed validation and
\* has raised: the cached file is still there, no temp file, the asset FAILED.
C4_Witness ==
    /\ ret.status = "invalid" /\ ret.force /\ ret.existed
    /\ files[LocalPath(ret.paper_id)] = PdfA
    /\ part[LocalPath(ret.paper_id)] = NoFile
    /\ assets[ret.paper_id].status = "FAILED"
    /\ assets[ret.paper_id].error = "invalid"

\* C16: in every reachable state of the PdfAsset index a record whose status is
\* FAILED carries an error that is not none.
C16_FailedHasError ==
    \A p \in PaperIds :
        (assets[p].exists /\ assets[p].status = "FAILED") => assets[p].error # NoError

\* A record is FAILED with the error of a broken stream, after its call has
\* raised and while the next call on the paper is on its way to the lock.
C16_Witness ==
    \E p \in PaperIds, c \in Callers :
        /\ assets[p].status = "FAILED" /\ assets[p].error = "stream"
        /\ ret.status = "stream"
        /\ pc[c] = "acquire" /\ local[c].paper_id = p /\ local[c].asset_status = "FAILED"

\* C5: a lock file exists only while the call that created it is between its
\* acquire_lock and its release_lock; when that call has returned or raised,
\* on whichever path, the lock file is gone.
C5_LockReleased ==
    \A d \in Dests :
        /\ lock[d] <=> lockOwner[d] # NoCaller
        /\ lockOwner[d] # NoCaller =>
              /\ InCritical(lockOwner[d])
              /\ DestOf(lockOwner[d]) = d

\* A call that took the lock, downloaded the file and then failed to write the
\* index has raised, and no lock file exists.
C5_Witness ==
    /\ ret.status = "index"
    /\ files[LocalPath(ret.paper_id)].exists
    /\ \A c \in Callers : pc[c] = "idle"
    /\ \A d \in Dests : ~lock[d]

\* C22: acquire_lock always terminates. An attempt that finds no lock file
\* creates it and returns; an attempt that finds it is followed by another one
\* only while fewer than `retries` were made; the attempt number `retries`
\* that finds it raises the lock-busy error. No call stays in acquire_lock
\* for ever and none returns without having created the lock file.
C22_LockTerminates ==
    /\ [][\A c \in Callers :
             AcquireLock(c) =>
                 LET d == DestOf(c)
                     attempts == local[c].tries + 1
                 IN  /\ attempts <= retries
                     /\ IF ~lock[d]
                        THEN /\ pc'[c] = "mark_downloading"
                             /\ lock'[d] /\ lockOwner'[d] = c
                        ELSE /\ lock' = lock /\ lockOwner' = lockOwner
                             /\ IF attempts = retries
                                THEN pc'[c] = "idle" /\ ret'.status = "LOCK_BUSY"
                                ELSE pc'[c] = "acquire" /\ local'[c].tries = attempts]_vars
    /\ \A c \in Callers : (pc[c] = "acquire") ~> (pc[c] # "acquire")

\* C22 witness: a call found the lock file at each of its `retries` attempts
\* and raised the lock-busy error while the other caller still holds the lock.
C22_Witness ==
    /\ ret.status = "LOCK_BUSY"
    /\ \E d \in Dests : lock[d] /\ lockOwner[d] # NoCaller /\ d = LocalPath(ret.paper_id)

\* C24: READY is stable while no call forces a re-download. Once a PdfAsset
\* is READY and its destination file exists non-empty, no step of any call
\* moves the record out of READY or leaves it without the size or without
\* the digest it held.
C24_ReadyStable ==
    [][\A p \in PaperIds :
          (/\ assets[p].status = "READY"
           /\ files[LocalPath(p)].exists /\ files[LocalPath(p)].size > 0) =>
              /\ assets'[p].status = "READY"
              /\ assets[p].size_bytes > 0 => assets'[p].size_bytes > 0
              /\ assets[p].sha256 # "" => assets'[p].sha256 # ""]_vars

\* C25: while a caller holds the lock of a destination and its download is
\* in progress, the record of the paper is DOWNLOADING and stays so until a
\* step of that caller sets it to READY or FAILED; no step of another call
\* changes the record.
C25_DownloadingKept ==
    [][\A p \in PaperIds :
          LET d == LocalPath(p)
              holder == lockOwner[d]
          IN  (/\ lock[d] /\ holder # NoCaller
               /\ pc[holder] \in {"fetch", "validate", "mark_ready"}
               /\ local[holder].paper_id = p
               /\ assets[p].status = "DOWNLOADING"
               /\ assets'[p] # assets[p]) =>
                  /\ pc'[holder] # pc[holder]
                  /\ assets'[p].status \in {"READY", "FAILED"}]_vars

\* C26: a PdfAsset with status READY has its destination file, non-empty.
C26_ReadyHasFile ==
    \A p \in PaperIds :
        assets[p].status = "READY" =>
            files[LocalPath(p)].exists /\ files[LocalPath(p)].size > 0

\* C26 witness: a download has put the file in place and marked the record
\* READY with the size and the digest of the file.
C26_Witness ==
    \E p \in PaperIds :
        /\ assets[p].status = "READY"
        /\ assets[p].sha256 = files[LocalPath(p)].sha
        /\ assets[p].size_bytes = files[LocalPath(p)].size
        /\ files[LocalPath(p)].exists /\ files[LocalPath(p)].size > 0
        /\ ret.status = "READY" /\ ~ret.existed

\* The lock file of a destination exists and the caller that created it is gone.
Stale(d) == lock[d] /\ lockOwner[d] # NoCaller /\ pc[lockOwner[d]] = "crashed"

\* C27: a lock file whose creator is gone stays. From then on no step writes
\* the destination or the temp file, the asset record changes only by a
\* fast-path call that returns READY, and every call that enters acquire_lock
\* for that destination leaves it, with the lock-busy error and in no other
\* way.
C27_StaleLockStays ==
    /\ [][\A p \in PaperIds :
             LET d == LocalPath(p)
             IN  Stale(d) =>
                   /\ lock'[d] /\ lockOwner'[d] = lockOwner[d]
                   /\ files'[d] = files[d] /\ part'[d] = part[d]
                   /\ assets'[p] # assets[p] =>
                         /\ ret'.status = "READY" /\ ret'.existed /\ ~ret'.force
                         /\ \E c \in Callers : pc[c] = "fast" /\ pc'[c] = "idle"
                   /\ \A c \in Callers :
                         (pc[c] = "acquire" /\ DestOf(c) = d /\ pc'[c] # "acquire") =>
                             /\ pc'[c] = "idle"
                             /\ ret'.status = "LOCK_BUSY"
                             /\ local[c].tries + 1 = retries]_vars
    /\ \A c \in Callers :
          (pc[c] = "acquire" /\ Stale(DestOf(c))) ~> (pc[c] = "idle")

\* C27 witness: the holder of the lock is gone, the file is there, and a
\* forced call has ended with the lock-busy error.
C27_Witness ==
    \E p \in PaperIds :
        /\ Stale(LocalPath(p))
        /\ ret.status = "LOCK_BUSY" /\ ret.paper_id = p /\ ret.force
        /\ files[LocalPath(p)].exists

\* C6: the temp file exists only inside download_pdf; once download_pdf has
\* failed or has renamed it onto the destination, no temp file remains.
C6_NoTempFileLeft ==
    \A d \in Dests :
        part[d].exists => \E c \in Callers : pc[c] = "validate" /\ DestOf(c) = d

\* ------------------------------------------------------------------ claims: session memory

\* C11: a resolve_paper(sid, None) call that runs while other threads write the
\* session returns what it would return from one single session state that
\* existed during the call: the state it found, a state in between, or the
\* state it left.
C11_AtomicRead ==
    [][\A t \in Threads :
          ResolveActive(t) =>
              tret'.paper \in seen[t] \cup {ResolveNoneOn(sessions', tlocal[t].sid, now')}]_vars
\* The first k elements of a list, in order.
FirstN(papers, k) == [i \in 1..k |-> papers[i]]

Min(a, b) == IF a < b THEN a ELSE b

\* What a session shows of its last_papers at the current time: nothing once
\* more than ttl has passed since updated_at.
Visible(sid) ==
    IF sessions[sid].exists /\ now - sessions[sid].updated_at <= ttl
    THEN sessions[sid].last_papers
    ELSE <<>>

\* C7: a get_last_papers(sid) no later than ttl after set_last_papers(sid, P)
\* returns exactly the first min(|P|, max_papers) elements of P in order, and
\* no session ever stores more than max_papers papers.
C7_TruncatedList ==
    [][\A sid \in SessionIds :
          /\ Len(sessions'[sid].last_papers) <= max_papers
          /\ (/\ GetLastPapers(sid)
              /\ lastSet[sid].at # NoTime
              /\ now - lastSet[sid].at <= ttl)
             => tret'.papers = FirstN(lastSet[sid].arg,
                                      Min(Len(lastSet[sid].arg), max_papers))]_vars

\* C7 witness: a list longer than max_papers was set, and a read within ttl
\* returned its first max_papers elements.
C7_Witness ==
    \E sid \in SessionIds :
        /\ tret.op = "get_last_papers" /\ tret.sid = sid
        /\ Len(lastSet[sid].arg) > max_papers
        /\ now - lastSet[sid].at <= ttl
        /\ tret.papers = FirstN(lastSet[sid].arg, max_papers)

\* C8: get_last_papers(sid) on a session whose updated_at lies more than ttl
\* back returns the empty list and leaves the stored list empty; within ttl it
\* returns the stored list and leaves it as it was.
C8_LazyExpiry ==
    [][\A sid \in SessionIds :
          (GetLastPapers(sid) /\ sessions[sid].exists)
          => IF now - sessions[sid].updated_at > ttl
             THEN tret'.papers = <<>> /\ sessions'[sid].last_papers = <<>>
             ELSE /\ tret'.papers = sessions[sid].last_papers
                  /\ sessions'[sid].last_papers = sessions[sid].last_papers]_vars

\* C8 witness: a non-empty list was set, no call cleared it explicitly, and a
\* read after expiry returned nothing and left nothing stored.
C8_Witness ==
    \E sid \in SessionIds :
        /\ tret.op = "get_last_papers" /\ tret.sid = sid /\ tret.papers = <<>>
        /\ lastSet[sid].arg # <<>>
        /\ now - sessions[sid].updated_at > ttl
        /\ sessions[sid].last_papers = <<>>

\* What C9 says resolve_paper(sid, None) returns: the paper of the current,
\* non-expired last_papers whose id is the non-expired last active id.
ClaimedResolveNone(sid) ==
    LET st == sessions[sid]
        active == /\ st.exists
                  /\ st.last_active_paper_id # NoneId
                  /\ st.last_active_at # NoTime
                  /\ now - st.last_active_at <= ttl
        hits == {i \in 1..Len(Visible(sid)) : Visible(sid)[i].id = st.last_active_paper_id}
    IN  IF active /\ hits # {}
        THEN Visible(sid)[CHOOSE i \in hits : \A j \in hits : i <= j]
        ELSE NoPaper

NthOrNone(papers, n) == IF 1 <= n /\ n <= Len(papers) THEN papers[n] ELSE NoPaper

ActiveNow(sid) ==
    IF /\ sessions[sid].exists
       /\ sessions[sid].last_active_paper_id # NoneId
       /\ now - sessions[sid].last_active_at <= ttl
    THEN sessions[sid].last_active_paper_id
    ELSE NoneId

AllDigits(s) == s # <<>> /\ \A i \in 1..Len(s) : IsDigit(s[i])

HeldById(papers, id) == \E i \in 1..Len(papers) : papers[i].id = id

HeldByTitle(papers, id) == \E i \in 1..Len(papers) : Contains(Lower(papers[i].title), Lower(id))

Synthesized(id) == <<"https://arxiv.org/pdf/">> \o id \o <<".", "p", "d", "f">>

\* The address the tool uses for a cached paper: the paper's own address with
\* the .pdf suffix, or the synthesized one when the paper carries none.
AddressOf(paper, id) ==
    IF paper = Paper1
    THEN <<"https://arxiv.org/pdf/", "a", "/", "1", "v", "2", ".", "p", "d", "f">>
    ELSE Synthesized(id)

C19_OwnTtl ==
    [][\A sid \in SessionIds :
          /\ (GetLastActive(sid) /\ sessions[sid].exists) =>
                 LET st == sessions[sid]
                 IN  IF st.last_active_at = NoTime
                     THEN /\ st.last_active_paper_id = NoneId
                          /\ tret'.id = NoneId
                          /\ sessions' = sessions
                     ELSE IF now - st.last_active_at <= ttl
                     THEN /\ st.last_active_paper_id # NoneId
                          /\ tret'.id = st.last_active_paper_id
                          /\ sessions' = sessions
                     ELSE /\ tret'.id = NoneId
                          /\ sessions'[sid].last_active_paper_id = NoneId
                          /\ sessions'[sid].last_active_at = NoTime
                          /\ sessions'[sid].last_papers = st.last_papers
                          /\ sessions'[sid].updated_at = st.updated_at
          /\ \A id \in ActiveIds \ {NoneId} :
                 SetLastActive(sid, id) =>
                     /\ sessions'[sid].last_active_paper_id = id
                     /\ sessions'[sid].last_active_at = now
          /\ (sessions'[sid].last_active_at # sessions[sid].last_active_at) =>
                 \/ GetLastActive(sid)
                 \/ \E id \in ActiveIds : SetLastActive(sid, id)
                 \/ \E t \in Threads : ResolveActive(t)]_vars

\* C19 witness: the session was created by set_last_active_paper_id (no list
\* was ever set), and a read later than ttl after it returned none and left
\* both fields cleared.
C19_Witness ==
    \E sid \in SessionIds :
        /\ tret.op = "get_last_active" /\ tret.sid = sid /\ tret.id = NoneId
        /\ sessions[sid].exists
        /\ lastSet[sid] = NoSet
        /\ sessions[sid].last_active_paper_id = NoneId
        /\ sessions[sid].last_active_at = NoTime
        /\ now - sessions[sid].updated_at > ttl

\* ------------------------------------------------------------------ claims: string references

\* (optional di)(digits)(optional pian), with blanks allowed around the digits
IndexShaped(s) ==
    \E a \in 1..Len(s), b \in 1..Len(s) :
        /\ a <= b
        /\ \A i \in a..b : IsDigit(s[i])
        /\ \A i \in 1..(a - 1) : (i = 1 /\ s[i] = ChDi) \/ IsSpace(s[i])
        /\ \A i \in (b + 1)..Len(s) : (i = Len(s) /\ s[i] = ChPian) \/ IsSpace(s[i])

\* The digits of an index-shaped string.
DigitsOf(s) == SelectSeq(s, IsDigit)

\* What C20 says resolve_paper returns for the string s on the list papers.
ClaimedResolveStr(papers, s) ==
    IF IndexShaped(s) THEN NthOrNone(papers, ToInt(DigitsOf(s)))
    ELSE IF \E i \in 1..Len(papers) : papers[i].id = s
    THEN papers[CHOOSE i \in 1..Len(papers) :
                    papers[i].id = s /\ \A j \in 1..(i - 1) : papers[j].id # s]
    ELSE IF \E i \in 1..Len(papers) : Contains(Lower(papers[i].title), Lower(s))
    THEN papers[CHOOSE i \in 1..Len(papers) :
                    /\ Contains(Lower(papers[i].title), Lower(s))
                    /\ \A j \in 1..(i - 1) : ~Contains(Lower(papers[j].title), Lower(s))]
    ELSE NoPaper

\* C20: for a string ref, resolve_paper lets the first stage that applies
\* decide: a string of the shape (optional di)(digits)(optional pian) is a
\* 1-based index, none when out of bounds; otherwise the paper with exactly
\* that id; otherwise the first paper whose title contains the string, case
\* ignored; otherwise none. No exception is raised.
C20_StagesInOrder ==
    [][\A t \in Threads, sid \in SessionIds, ref \in Refs :
          (ref.kind = "str" /\ ResolveBegin(t, sid, ref)) =>
              tret'.paper = ClaimedResolveStr(Visible(sid), Strip(ref.s))]_vars

\* ------------------------------------------------------------------ claims: file names

\* What C23 says safe_filename makes of a name: the safe characters stay, and
\* of each maximal run of other characters the first becomes "_" and the rest
\* goes.
Collapsed(name) ==
    LET Stays(i) == IsSafeChar(name[i]) \/ i = 1 \/ IsSafeChar(name[i - 1])
        at == SelectSeq([i \in 1..Len(name) |-> i], Stays)
    IN  [k \in 1..Len(at) |-> IF IsSafeChar(name[at[k]]) THEN name[at[k]] ELSE "_"]

\* A name from its first to its last character that is not "_".
Trimmed(name) ==
    LET inner == {i \in 1..Len(name) : name[i] # "_"}
    IN  IF inner = {} THEN <<>>
        ELSE SubSeq(name, CHOOSE i \in inner : \A j \in inner : i <= j,
                          CHOOSE i \in inner : \A j \in inner : i >= j)

\* C23: safe_filename(paper_id) keeps every letter, digit, ".", "_" and "-"
\* of paper_id in order and puts exactly one "_" for each maximal run of other
\* characters, adding and removing nothing else.
C23_OnlyRunsCollapsed ==
    \A c \in Callers :
        pc[c] # "idle" =>
            local[c].local_path = Collapsed(local[c].paper_id) \o <<".", "p", "d", "f">>

\* C23, amended: after the runs are collapsed, every "_" at the front and at
\* the end of the name is removed, whether it stood in paper_id or came from
\* a run.
C23_CollapsedAndTrimmed ==
    \A c \in Callers :
        pc[c] # "idle" =>
            local[c].local_path =
                Trimmed(Collapsed(local[c].paper_id)) \o <<".", "p", "d", "f">>

\* A download is under way for an id that begins with a run and ends with an
\* underscore of its own; the file is named after the letter alone.
C23_Witness ==
    /\ pc["c1"] # "idle"
    /\ local["c1"].paper_id = <<"/", "a", "_">>
    /\ local["c1"].local_path = <<"a", ".", "p", "d", "f">>

\* ------------------------------------------------------------------ claims: expiry

\* C28: expired last_papers do not come back. When get_last_papers(sid)
\* would return nothing (no session, no papers, or more than ttl since
\* updated_at), it returns nothing after every step that is not a
\* set_last_papers(sid, ...), whether or not a read has cleared the list.
C28_ExpiredStaysHidden ==
    [][\A sid \in SessionIds :
          (/\ Visible(sid) = <<>>
           /\ ~ \E papers \in InputLists : SetLastPapers(sid, papers)) =>
              ((sessions'[sid].exists /\ now' - sessions'[sid].updated_at <= ttl)
                  => sessions'[sid].last_papers = <<>>)]_vars

\* ------------------------------------------------------------------ claims: last active on download

\* What a download_arxiv_pdf call that resolved its paper leaves behind: the
\* paper is the last active one as of now, and neither lock, files nor index
\* have been touched yet; and when the call comes to its end, however the
\* download went, the paper still is the stored last active one.
RecordedFirst(c, sid) ==
    /\ sessions'[sid].last_active_paper_id = local'[c].paper_id
    /\ sessions'[sid].last_active_at = now
    /\ UNCHANGED <<files, part, lock, lockOwner, assets>>

StillRecordedAtEnd ==
    \A c \in ToolCallers, sid \in SessionIds :
        (pc[c] # "idle" /\ pc'[c] = "idle") =>
            sessions'[sid].last_active_paper_id = ret'.paper_id

\* C29: download_arxiv_pdf records the resolved paper as last active before
\* any lock, network or index step, and the record stands when the call ends,
\* failed or not; when resolution fails, last_active_paper_id and the asset
\* indices are as they were.
C29_FailureLeavesSession ==
    [][/\ \A c \in ToolCallers, sid \in SessionIds, ref \in ToolRefs, force \in BOOLEAN :
             DownloadCall(c, sid, ref, force) =>
                 IF pc'[c] = "get_asset"
                 THEN RecordedFirst(c, sid)
                 ELSE /\ ret'.status = "ValueError"
                      /\ sessions'[sid].last_active_paper_id = sessions[sid].last_active_paper_id
                      /\ UNCHANGED <<files, part, lock, lockOwner, assets, indexVars>>
       /\ StillRecordedAtEnd]_vars

\* C29, amended: when resolution fails, the last active paper a read returns
\* is as it was and no id is recorded; the stored last_active_paper_id and
\* last_active_at are cleared if the call had ref unspecified and found them
\* expired, and are untouched otherwise.
C29_FailureRecordsNothing ==
    [][/\ \A c \in ToolCallers, sid \in SessionIds, ref \in ToolRefs, force \in BOOLEAN :
             DownloadCall(c, sid, ref, force) =>
                 IF pc'[c] = "get_asset"
                 THEN RecordedFirst(c, sid)
                 ELSE /\ ret'.status = "ValueError"
                      /\ ActiveNow(sid)' = ActiveNow(sid)
                      /\ IF /\ ref = RefNone
                            /\ sessions[sid].last_active_at # NoTime
                            /\ now - sessions[sid].last_active_at > ttl
                         THEN /\ sessions'[sid].last_active_paper_id = NoneId
                              /\ sessions'[sid].last_active_at = NoTime
                         ELSE /\ sessions'[sid].last_active_paper_id =
                                     sessions[sid].last_active_paper_id
                              /\ sessions'[sid].last_active_at = sessions[sid].last_active_at
                      /\ UNCHANGED <<files, part, lock, lockOwner, assets, indexVars>>
       /\ StillRecordedAtEnd]_vars

\* C29 witness: a call made after time 0 resolved its paper, recorded it and
\* then failed on the request.
C29_Witness ==
    /\ ret.status = "http"
    /\ ret.paper_id # NoneId
    /\ sessions["s1"].last_active_paper_id = ret.paper_id
    /\ sessions["s1"].last_active_at > 0

====
